---- MODULE Spec2Model ----
(***************************************************************************)
(* Model of the mock-webhooks capture pipeline (handleWebhook), its guards *)
(* (API key, fixed-window rate limiter, payload size, concurrent-delay     *)
(* counter) and its two storage backends (in-memory array, Turso table).   *)
(*                                                                         *)
(* A JavaScript handler runs without interruption between two awaits, so   *)
(* each action below is the code between one await of handleWebhook and    *)
(* the next.  Times are milliseconds since the epoch of the model; an      *)
(* ISO-8601 timestamp (toISOString) is written as the millisecond count it *)
(* encodes, which has the same order and the same equality.                *)
(***************************************************************************)
EXTENDS Integers, Sequences, FiniteSets, TLC

VARIABLES
  cfg,                    \* process.env as read at module load
  now,                    \* Date.now()
  rateLimitStore,         \* security.ts: Map<string, RateLimitEntry>
  activeTimeoutRequests,  \* security.ts: let activeTimeoutRequests
  webhookLogs,            \* memory.ts: const webhookLogs: WebhookLog[]
  rows,                   \* turso.ts: table webhook_logs, in rowid order
  tieOrder,               \* how the SQL engine orders rows of equal timestamp
  req,                    \* one entry per capture request: position and locals
  inserted,               \* history: the records in the order the backend inserted them
  webhooks,               \* webhooks.ts: Map<sessionId, Webhook[]>
  api                     \* the latest call of a management endpoint, its answer and payload

vars == <<cfg, now, rateLimitStore, activeTimeoutRequests, webhookLogs, rows, tieOrder,
          req, inserted, webhooks, api>>

\* ------------------------------------------------------------------ bounds
NumRequests == 3
MaxClockSeconds == 2

Req == 1 .. NumRequests
\* The rate-limit runs need one request more: a full window and the one after it.
RateReq == 1 .. NumRequests + 1

\* ------------------------------------------------------- values and tables
\* An optional value (undefined / null / a header or parameter that was not sent /
\* NaN / SQL NULL) is the empty tuple, a present value v is <<v>>.
None == << >>
Some(v) == <<v>>
Val(o) == o[1]

MsPerSecond == 1000

\* The instants the model observes: whole seconds, and around them to the millisecond
Seconds == { s * MsPerSecond : s \in 0 .. MaxClockSeconds }
Times == { s * MsPerSecond + e : s \in 0 .. MaxClockSeconds, e \in {0, 1, MsPerSecond - 1} }

Min(a, b) == IF a <= b THEN a ELSE b
Max(a, b) == IF a >= b THEN a ELSE b

\* Math.ceil(a / b) for b > 0 and any integer a
CeilDiv(a, b) == IF a >= 0 THEN (a + b - 1) \div b ELSE -((-a) \div b)

\* parseInt(s, 10) on the query strings the model sends: the longest prefix that
\* is an optionally signed run of digits; None is NaN.
ParseInt(s) ==
  CASE s = "0" -> Some(0)
    [] s = "1" -> Some(1)
    [] s = "2" -> Some(2)
    [] s = "3" -> Some(3)
    [] s = "-1" -> Some(-1)
    [] s = "2s" -> Some(2)
    [] s = "1.5" -> Some(1)
    [] s = "99" -> Some(99)
    [] s = "100" -> Some(100)
    [] s = "150" -> Some(150)
    [] s = "204" -> Some(204)
    [] s = "404" -> Some(404)
    [] s = "503" -> Some(503)
    [] s = "599" -> Some(599)
    [] s = "600" -> Some(600)
    [] s = "404abc" -> Some(404)
    [] OTHER -> None

\* The query strings that are written as an integer, with the integer they denote.
IntegerStrings ==
  {"0", "1", "2", "3", "-1", "99", "100", "150", "204", "404", "503", "599", "600"}

\* JavaScript truthiness of an optional string
Truthy(o) == o # None /\ Val(o) # ""

\* Request bodies: the text sent, its length in UTF-16 code units (text.length),
\* its length in bytes (what content-length declares) and what JSON.parse gives.
\* "\"E\"" stands for a JSON string of one two-byte character (such as e-acute).
BodyTexts ==
  {"", "1", "[1]", "[1,2]", "abc", "\"E\"", "[1, 2]", "{\"a\":1,\"b\":2}",
   "{\"b\":2,\"a\":1}"}

TextLength(b) ==
  CASE b = "" -> 0 [] b = "1" -> 1 [] b = "[1]" -> 3 [] b = "[1,2]" -> 5
    [] b = "abc" -> 3 [] b = "\"E\"" -> 3 [] b = "[1, 2]" -> 6
    [] b = "{\"a\":1,\"b\":2}" -> 13 [] b = "{\"b\":2,\"a\":1}" -> 13

ByteLength(b) ==
  CASE b = "" -> 0 [] b = "1" -> 1 [] b = "[1]" -> 3 [] b = "[1,2]" -> 5
    [] b = "abc" -> 3 [] b = "\"E\"" -> 4 [] b = "[1, 2]" -> 6
    [] b = "{\"a\":1,\"b\":2}" -> 13 [] b = "{\"b\":2,\"a\":1}" -> 13

\* A captured body value is a JavaScript value, written as a tagged string:
\* "null", "num:1", "arr:[1]", "str:abc" (a string), "obj:{...}" (an object, its
\* keys in the order the object holds them).
BodyNull == "null"

\* JSON.parse of a request text, as the body value it yields; None when it throws.
JsonParseText(b) ==
  CASE b = "1" -> Some("num:1")
    [] b = "[1]" -> Some("arr:[1]")
    [] b = "[1,2]" -> Some("arr:[1,2]")
    [] b = "\"E\"" -> Some("str:E")
    [] b = "[1, 2]" -> Some("arr:[1,2]")
    [] b = "{\"a\":1,\"b\":2}" -> Some("obj:{a:1,b:2}")
    [] b = "{\"b\":2,\"a\":1}" -> Some("obj:{b:2,a:1}")
    [] OTHER -> None

\* The raw text as a string value
TextValue(b) ==
  CASE b = "" -> "str:" [] b = "1" -> "str:1" [] b = "[1]" -> "str:[1]"
    [] b = "[1,2]" -> "str:[1,2]" [] b = "abc" -> "str:abc" [] b = "\"E\"" -> "str:\"E\""
    [] b = "[1, 2]" -> "str:[1, 2]"
    [] b = "{\"a\":1,\"b\":2}" -> "str:{\"a\":1,\"b\":2}"
    [] b = "{\"b\":2,\"a\":1}" -> "str:{\"b\":2,\"a\":1}"

\* request.formData() of a urlencoded text: the mapping and the estimated size
\* (sum of key and value lengths) of route.ts lines 201-209.
FormValue(b) ==
  CASE b = "" -> "obj:{}" [] b = "1" -> "obj:{1:}" [] b = "[1]" -> "obj:{[1]:}"
    [] b = "[1,2]" -> "obj:{[1,2]:}" [] b = "abc" -> "obj:{abc:}" [] b = "\"E\"" -> "obj:{\"E\":}"
    [] b = "[1, 2]" -> "obj:{[1, 2]:}"
    [] b = "{\"a\":1,\"b\":2}" -> "obj:{{\"a\":1,\"b\":2}:}"
    [] b = "{\"b\":2,\"a\":1}" -> "obj:{{\"b\":2,\"a\":1}:}"

FormEstimatedSize(b) == TextLength(b)

\* JSON.stringify of a body value, and JSON.parse of such a text
JsonStringify(v) ==
  CASE v = "num:1" -> "1"
    [] v = "arr:[1]" -> "[1]"
    [] v = "arr:[1,2]" -> "[1,2]"
    [] v = "str:" -> "\"\""
    [] v = "str:E" -> "\"E\""
    [] v = "str:1" -> "\"1\""
    [] v = "str:[1]" -> "\"[1]\""
    [] v = "str:[1,2]" -> "\"[1,2]\""
    [] v = "str:abc" -> "\"abc\""
    [] v = "str:\"E\"" -> "\"\\\"E\\\"\""
    [] v = "obj:{}" -> "{}"
    [] v = "obj:{1:}" -> "{\"1\":\"\"}"
    [] v = "obj:{[1]:}" -> "{\"[1]\":\"\"}"
    [] v = "obj:{[1,2]:}" -> "{\"[1,2]\":\"\"}"
    [] v = "obj:{abc:}" -> "{\"abc\":\"\"}"
    [] v = "obj:{\"E\":}" -> "{\"\\\"E\\\"\":\"\"}"
    [] v = "obj:{a:1,b:2}" -> "{\"a\":1,\"b\":2}"
    [] v = "obj:{b:2,a:1}" -> "{\"b\":2,\"a\":1}"
    [] v = "str:[1, 2]" -> "\"[1, 2]\""
    [] v = "str:{\"a\":1,\"b\":2}" -> "\"{\\\"a\\\":1,\\\"b\\\":2}\""
    [] v = "str:{\"b\":2,\"a\":1}" -> "\"{\\\"b\\\":2,\\\"a\\\":1}\""
    [] v = "obj:{[1, 2]:}" -> "{\"[1, 2]\":\"\"}"
    [] v = "obj:{{\"a\":1,\"b\":2}:}" -> "{\"{\\\"a\\\":1,\\\"b\\\":2}\":\"\"}"
    [] v = "obj:{{\"b\":2,\"a\":1}:}" -> "{\"{\\\"b\\\":2,\\\"a\\\":1}\":\"\"}"

BodyValues ==
  {"num:1", "arr:[1]", "arr:[1,2]", "str:", "str:E", "str:1", "str:[1]", "str:[1,2]",
   "str:abc", "str:\"E\"", "obj:{}", "obj:{1:}", "obj:{[1]:}", "obj:{[1,2]:}",
   "obj:{abc:}", "obj:{\"E\":}", "obj:{a:1,b:2}", "obj:{b:2,a:1}", "str:[1, 2]",
   "str:{\"a\":1,\"b\":2}", "str:{\"b\":2,\"a\":1}", "obj:{[1, 2]:}",
   "obj:{{\"a\":1,\"b\":2}:}", "obj:{{\"b\":2,\"a\":1}:}"}

JsonParse(t) == CHOOSE v \in BodyValues : JsonStringify(v) = t

\* ------------------------------------------------------------ configuration
\* security.ts SECURITY_CONFIG, memory.ts / turso.ts MAX_LOGS, session.ts API_KEYS,
\* storage factory STORAGE_TYPE: read from process.env once, at module load.
RATE_LIMIT_REQUESTS == cfg.RATE_LIMIT_REQUESTS
RATE_LIMIT_WINDOW_MS == cfg.RATE_LIMIT_WINDOW_MS
MAX_BODY_SIZE == cfg.MAX_BODY_SIZE
MAX_JSON_SIZE == cfg.MAX_JSON_SIZE
MAX_TEXT_SIZE == cfg.MAX_TEXT_SIZE
MAX_TIMEOUT_SECONDS == cfg.MAX_TIMEOUT_SECONDS
MAX_CONCURRENT_TIMEOUT_REQUESTS == cfg.MAX_CONCURRENT_TIMEOUT_REQUESTS
STORAGE_TYPE == cfg.STORAGE_TYPE
API_KEYS == cfg.API_KEYS
AUTH_ENABLED == cfg.AUTH_ENABLED \/ API_KEYS # {}

\* memory.ts line 8: parseInt(process.env.MAX_LOGS || "1000", 10)
MAX_LOGS == IF cfg.MAX_LOGS = None THEN 1000 ELSE Val(cfg.MAX_LOGS)
\* turso.ts line 119: parseInt(process.env.MAX_LOGS || "0", 10)
maxLogs == IF cfg.MAX_LOGS = None THEN 0 ELSE Val(cfg.MAX_LOGS)

\* ------------------------------------------------------------------- guards
\* session.ts validateApiKey.  The Authorization values the model sends and what
\* authHeader.replace(/^(Bearer|ApiKey)\s+/i, "").trim() leaves of them.
StripScheme(h) ==
  CASE h = "Bearer k1" -> "k1"
    [] h = "ApiKey k1" -> "k1"
    [] h = "bearer k1" -> "k1"
    [] h = "Basic k1" -> "Basic k1"
    [] h = "k1" -> "k1"
    [] h = "Bearer bad" -> "bad"
    [] OTHER -> h

ValidateApiKey(in) ==
  IF ~AUTH_ENABLED THEN TRUE
  ELSE \/ Truthy(in.authorization) /\ StripScheme(Val(in.authorization)) \in API_KEYS
       \/ Truthy(in.xApiKey) /\ Val(in.xApiKey) \in API_KEYS
       \/ Truthy(in.apiKeyParam) /\ Val(in.apiKeyParam) \in API_KEYS

\* security.ts getClientIP: forwarded.split(",")[0].trim() on the values the model sends
FirstForwarded(h) ==
  CASE h = "10.0.0.1, 10.0.0.2" -> "10.0.0.1"
    [] OTHER -> h

GetClientIP(in) ==
  IF Truthy(in.xForwardedFor) THEN FirstForwarded(Val(in.xForwardedFor))
  ELSE IF Truthy(in.xRealIp) THEN Val(in.xRealIp)
  ELSE "unknown"

Identifiers == {"10.0.0.1", "10.0.0.2", "unknown"}

\* Mutant of checkRateLimit: the ceiling compared with > instead of >=
CheckRateLimitOneMore(store, identifier, t) ==
  LET entry == store[identifier] IN
  IF entry = None \/ t > Val(entry).resetTime
  THEN [allowed |-> TRUE,
        remaining |-> RATE_LIMIT_REQUESTS - 1,
        resetTime |-> t + RATE_LIMIT_WINDOW_MS,
        store |-> [store EXCEPT ![identifier] =
                     Some([count |-> 1, resetTime |-> t + RATE_LIMIT_WINDOW_MS])]]
  ELSE IF Val(entry).count > RATE_LIMIT_REQUESTS
  THEN [allowed |-> FALSE, remaining |-> 0, resetTime |-> Val(entry).resetTime,
        store |-> store]
  ELSE [allowed |-> TRUE,
        remaining |-> RATE_LIMIT_REQUESTS - (Val(entry).count + 1),
        resetTime |-> Val(entry).resetTime,
        store |-> [store EXCEPT ![identifier] =
                     Some([count |-> Val(entry).count + 1,
                           resetTime |-> Val(entry).resetTime])]]

\* checkRateLimit opening a window in a fresh map: the entries of the other
\* identifiers are lost
CheckRateLimitFreshMap(store, identifier, t) ==
  LET entry == store[identifier] IN
  IF entry = None \/ t > Val(entry).resetTime
  THEN [allowed |-> TRUE,
        remaining |-> RATE_LIMIT_REQUESTS - 1,
        resetTime |-> t + RATE_LIMIT_WINDOW_MS,
        store |-> [i \in DOMAIN store |->
                     IF i = identifier
                     THEN Some([count |-> 1, resetTime |-> t + RATE_LIMIT_WINDOW_MS])
                     ELSE None]]
  ELSE IF Val(entry).count >= RATE_LIMIT_REQUESTS
  THEN [allowed |-> FALSE, remaining |-> 0, resetTime |-> Val(entry).resetTime,
        store |-> store]
  ELSE [allowed |-> TRUE,
        remaining |-> RATE_LIMIT_REQUESTS - (Val(entry).count + 1),
        resetTime |-> Val(entry).resetTime,
        store |-> [store EXCEPT ![identifier] =
                     Some([count |-> Val(entry).count + 1,
                           resetTime |-> Val(entry).resetTime])]]

\* checkRateLimit counting the requests it rejects as well
CheckRateLimitCountsRejected(store, identifier, t) ==
  LET entry == store[identifier] IN
  IF entry = None \/ t > Val(entry).resetTime
  THEN [allowed |-> TRUE,
        remaining |-> RATE_LIMIT_REQUESTS - 1,
        resetTime |-> t + RATE_LIMIT_WINDOW_MS,
        store |-> [store EXCEPT ![identifier] =
                     Some([count |-> 1, resetTime |-> t + RATE_LIMIT_WINDOW_MS])]]
  ELSE [allowed |-> Val(entry).count < RATE_LIMIT_REQUESTS,
        remaining |-> Max(0, RATE_LIMIT_REQUESTS - (Val(entry).count + 1)),
        resetTime |-> Val(entry).resetTime,
        store |-> [store EXCEPT ![identifier] =
                     Some([count |-> Val(entry).count + 1,
                           resetTime |-> Val(entry).resetTime])]]

\* security.ts checkRateLimit: the result and the map after the call
CheckRateLimit(store, identifier, t) ==
  LET entry == store[identifier] IN
  IF entry = None \/ t > Val(entry).resetTime
  THEN [allowed |-> TRUE,
        remaining |-> RATE_LIMIT_REQUESTS - 1,
        resetTime |-> t + RATE_LIMIT_WINDOW_MS,
        store |-> [store EXCEPT ![identifier] =
                     Some([count |-> 1, resetTime |-> t + RATE_LIMIT_WINDOW_MS])]]
  ELSE IF Val(entry).count >= RATE_LIMIT_REQUESTS
  THEN [allowed |-> FALSE,
        remaining |-> 0,
        resetTime |-> Val(entry).resetTime,
        store |-> store]
  ELSE [allowed |-> TRUE,
        remaining |-> RATE_LIMIT_REQUESTS - (Val(entry).count + 1),
        resetTime |-> Val(entry).resetTime,
        store |-> [store EXCEPT ![identifier] =
                     Some([count |-> Val(entry).count + 1,
                           resetTime |-> Val(entry).resetTime])]]

\* Mutants of the concurrent-delay counter: an off-by-one admission test, a
\* release that is forgotten.
CanStartTimeoutRequestInclusive(active) == active <= MAX_CONCURRENT_TIMEOUT_REQUESTS
EndTimeoutRequestForgotten(active) == active

\* security.ts canStartTimeoutRequest / startTimeoutRequest / endTimeoutRequest
CanStartTimeoutRequest(active) == active < MAX_CONCURRENT_TIMEOUT_REQUESTS
StartTimeoutRequest(active) == active + 1
EndTimeoutRequest(active) == IF active > 0 THEN active - 1 ELSE active

\* security.ts validatePayloadSize / getContentLength
ValidatePayloadSize(size, maxSize) == size <= maxSize
GetContentLength(in) == IF in.contentLength THEN Some(ByteLength(in.body)) ELSE None

\* ------------------------------------------------------------ capture: data
\* route.ts lines 105-111 and webhooks.ts extractWebhookIdFromPath: the path is
\* the sequence of its segments; the first slug segment is a webhook id when it
\* matches webhook_[^/]+ .
PathOf(slug) == <<"webhooks">> \o slug

MatchesWebhookId(seg) ==
  seg \in {"webhook_a", "webhook_b", "webhook_0_k3j9x", "webhook_0_p0q2m",
           "webhook_1000_k3j9x", "webhook_1000_p0q2m"}

\* The pattern without its anchor: the first segment anywhere in the path that
\* matches
ExtractWebhookIdUnanchored(path) ==
  IF \E i \in 2 .. Len(path) : MatchesWebhookId(path[i])
  THEN Some(path[CHOOSE i \in 2 .. Len(path) :
                   MatchesWebhookId(path[i]) /\ \A j \in 2 .. i - 1 : ~MatchesWebhookId(path[j])])
  ELSE None

ExtractWebhookIdFromPath(path) ==
  IF Len(path) >= 2 /\ MatchesWebhookId(path[2]) THEN Some(path[2]) ELSE None

\* The decimal string of a small number
Digits(n) ==
  CASE n = 0 -> "0" [] n = 1 -> "1" [] n = 2 -> "2" [] n = 3 -> "3" [] n = 4 -> "4"
    [] n = 5 -> "5" [] n = 6 -> "6" [] n = 13 -> "13"

\* Header names a request may carry besides the ones above, as the client wrote
\* them, and the lower-case form the Headers object of the platform hands to
\* forEach.
HeaderNames == {"X-Vercel-Id", "x-vercel-cache", "X-VERCEL", "x-verce", "X-Custom"}

ToLowerCase(name) ==
  CASE name = "X-Vercel-Id" -> "x-vercel-id"
    [] name = "X-VERCEL" -> "x-vercel"
    [] name = "X-Custom" -> "x-custom"
    [] OTHER -> name

\* request.headers.forEach: the headers the request carries, names lower-cased
RequestHeaders(in) ==
  {<<"content-type", in.contentType>>}
    \cup (IF in.contentLength THEN {<<"content-length", Digits(ByteLength(in.body))>>} ELSE {})
    \cup (IF in.xForwardedFor # None THEN {<<"x-forwarded-for", Val(in.xForwardedFor)>>} ELSE {})
    \cup (IF in.xRealIp # None THEN {<<"x-real-ip", Val(in.xRealIp)>>} ELSE {})
    \cup (IF in.authorization # None THEN {<<"authorization", Val(in.authorization)>>} ELSE {})
    \cup (IF in.xApiKey # None THEN {<<"x-api-key", Val(in.xApiKey)>>} ELSE {})
    \cup (IF in.xVercel THEN {<<"x-vercel-id", "iad1">>} ELSE {})
    \cup {<<ToLowerCase(name), "v">> : name \in in.extraHeaders}

\* key.toLowerCase().startsWith("x-vercel")
StartsWithXVercel(key) ==
  ToLowerCase(key) \in {"x-vercel", "x-vercel-id", "x-vercel-cache"}

\* The filter left out: every header is kept
CapturedHeadersUnfiltered(in) == RequestHeaders(in)

\* route.ts lines 166-172
CapturedHeaders(in) == {h \in RequestHeaders(in) : ~StartsWithXVercel(h[1])}

\* route.ts lines 113-118
QueryParams(in) ==
  (IF in.statusCode # None THEN {<<"statusCode", Val(in.statusCode)>>} ELSE {})
    \cup (IF in.timeout # None THEN {<<"timeout", Val(in.timeout)>>} ELSE {})
    \cup (IF in.apiKeyParam # None THEN {<<"apiKey", Val(in.apiKeyParam)>>} ELSE {})

\* The status range check left out: any parsed number is taken
ValidStatusCodeUnchecked(in) ==
  LET statusCode == IF Truthy(in.statusCode) THEN ParseInt(Val(in.statusCode)) ELSE Some(200)
  IN  IF statusCode # None THEN Val(statusCode) ELSE 200

\* route.ts lines 120-128
ValidStatusCode(in) ==
  LET statusCode == IF Truthy(in.statusCode) THEN ParseInt(Val(in.statusCode)) ELSE Some(200)
  IN  IF statusCode # None /\ Val(statusCode) >= 100 /\ Val(statusCode) <= 599
      THEN Val(statusCode) ELSE 200

\* route.ts lines 125-133
ValidTimeoutSeconds(in) ==
  LET timeoutSeconds == IF Truthy(in.timeout) THEN ParseInt(Val(in.timeout)) ELSE Some(0)
  IN  IF timeoutSeconds # None /\ Val(timeoutSeconds) >= 0
         /\ Val(timeoutSeconds) <= MAX_TIMEOUT_SECONDS
      THEN Val(timeoutSeconds) ELSE 0

\* The JSON responses of handleWebhook; a field the response does not carry is None.
Response(status, kind) ==
  [status |-> status, kind |-> kind, maxSize |-> None, retryAfter |-> None,
   remaining |-> None, statusCode |-> None, timeout |-> None, startTime |-> None,
   endTime |-> None, body |-> None, error |-> None]

\* A request that has not arrived yet
Idle ==
  [pc |-> "idle", in |-> None, at |-> None, remaining |-> None, resetTime |-> None,
   validStatusCode |-> 200, validTimeoutSeconds |-> 0,
   startTime |-> None, endTime |-> None, log |-> None, resp |-> None]

Done(q, resp) == [q EXCEPT !.pc = "done", !.resp = Some(resp)]

\* route.ts lines 293-302: the outer catch, with the message of what was thrown
ErrorResponse(message) == [Response(500, "error") EXCEPT !.error = Some(message)]

\* What the platform's Response constructor (under NextResponse.json, route.ts
\* line 289) accepts as init.status with a body: 200..599 except the null-body
\* statuses; anything else throws, which the outer catch answers.
ResponseInitThrows(status) ==
  status < 200 \/ status > 599 \/ status \in {204, 205, 304}

\* route.ts lines 263-292 (and 293-302 when building the response throws)
SuccessResponse(q) ==
  IF ResponseInitThrows(q.validStatusCode) THEN ErrorResponse("invalid response status")
  ELSE [Response(q.validStatusCode, "ok") EXCEPT
          !.statusCode = Some(q.validStatusCode),
          !.timeout = Some(q.validTimeoutSeconds),
          !.body = Some(Val(q.log).body),
          !.remaining = q.remaining,
          !.startTime = IF q.validTimeoutSeconds > 0 /\ q.startTime # None /\ q.endTime # None
                        THEN q.startTime ELSE None,
          !.endTime = IF q.validTimeoutSeconds > 0 /\ q.startTime # None /\ q.endTime # None
                      THEN q.endTime ELSE None]

\* ------------------------------------------------------------------ storage
\* memory.ts MemoryStorage.addLog: unshift, then splice(MAX_LOGS)
MemoryAddLog(logs, log) ==
  LET l == <<log>> \o logs
  IN  IF Len(l) > MAX_LOGS THEN SubSeq(l, 1, MAX_LOGS) ELSE l

\* memory.ts getLogs
MemoryGetLogs(logs, webhookId) ==
  IF Truthy(webhookId) THEN SelectSeq(logs, LAMBDA l : l.webhookId = webhookId) ELSE logs

\* memory.ts getLogById: find returns the first match, undefined when none
MemoryGetLogById(logs, id) ==
  IF \E i \in 1 .. Len(logs) : logs[i].id = id
  THEN Some(logs[CHOOSE i \in 1 .. Len(logs) :
                   logs[i].id = id /\ \A j \in 1 .. i - 1 : logs[j].id # id])
  ELSE None

\* Mutant of the page count: rounded down instead of up
TotalPagesFloor(total, pageSize) == total \div pageSize

\* Math.ceil(total / pageSize) and the page arithmetic of getLogsPaginated
\* (memory.ts lines 43-57, turso.ts lines 195-200)
TotalPages(total, pageSize) == CeilDiv(total, pageSize)
\* The upper clamp left out: a page beyond the last one is taken as it is
PageNumUnclamped(page, totalPages) == Max(1, page)

PageNum(page, totalPages) == Max(1, Min(page, totalPages))

\* Array.prototype.slice(startIndex, endIndex), indices from 0
Slice(seq, startIndex, endIndex) ==
  SubSeq(seq, Min(startIndex, Len(seq)) + 1, Min(endIndex, Len(seq)))

\* memory.ts getLogsPaginated
MemoryGetLogsPaginated(logs, page, pageSize, webhookId) ==
  LET filteredLogs == MemoryGetLogs(logs, webhookId)
      total == Len(filteredLogs)
      totalPages == TotalPages(total, pageSize)
      pageNum == PageNum(page, totalPages)
      startIndex == (pageNum - 1) * pageSize
      endIndex == startIndex + pageSize
  IN  [logs |-> Slice(filteredLogs, startIndex, endIndex),
       total |-> total, page |-> pageNum, pageSize |-> pageSize,
       totalPages |-> totalPages, hasMore |-> pageNum < totalPages]

\* JSON.stringify / JSON.parse of a headers or query map: the text is written as
\* the map it denotes, tagged.
StringifyMap(m) == <<"json", m>>
ParseMap(t) == t[2]

\* turso.ts addLog lines 101-115: the row written for a log
LogToRow(log) ==
  [id |-> log.id, timestamp |-> log.timestamp, method |-> log.method,
   path |-> log.path, url |-> log.url, status_code |-> log.statusCode,
   timeout |-> IF log.timeout # None /\ Val(log.timeout) # 0 THEN log.timeout ELSE None,
   start_time |-> log.startTime,
   end_time |-> log.endTime,
   headers |-> StringifyMap(log.headers),
   query_params |-> StringifyMap(log.queryParams),
   body |-> IF log.body # BodyNull THEN Some(JsonStringify(log.body)) ELSE None,
   webhook_id |-> IF Truthy(log.webhookId) THEN log.webhookId ELSE None]

\* turso.ts rowToLog
RowToLog(row) ==
  [id |-> row.id, timestamp |-> row.timestamp, method |-> row.method,
   path |-> row.path, url |-> row.url, statusCode |-> row.status_code,
   timeout |-> IF row.timeout # None /\ Val(row.timeout) # 0 THEN row.timeout ELSE None,
   startTime |-> row.start_time,
   endTime |-> row.end_time,
   headers |-> ParseMap(row.headers),
   queryParams |-> ParseMap(row.query_params),
   body |-> IF Truthy(row.body) THEN JsonParse(Val(row.body)) ELSE BodyNull,
   webhookId |-> IF Truthy(row.webhook_id) THEN row.webhook_id ELSE None]

\* ORDER BY timestamp DESC over rows given in rowid order.  SQL leaves the order
\* of rows of equal timestamp to the engine: tieOrder says which way it goes.
ComesBefore(rs, i, j) ==
  \/ rs[i].timestamp > rs[j].timestamp
  \/ rs[i].timestamp = rs[j].timestamp
       /\ IF tieOrder = "rowid_asc" THEN i < j ELSE i > j

\* The ORDER BY clause left out: rows come in rowid order
OrderByRowid(rs) == rs

OrderByTimestampDesc(rs) ==
  [k \in 1 .. Len(rs) |->
     rs[CHOOSE i \in 1 .. Len(rs) :
          Cardinality({j \in 1 .. Len(rs) : ComesBefore(rs, j, i)}) = k - 1]]

\* LIMIT n OFFSET o
LimitOffset(rs, n, o) == Slice(rs, o, o + n)

\* turso.ts addLog lines 121-131: DELETE ... WHERE id NOT IN (SELECT id ... ORDER BY
\* timestamp DESC LIMIT ?)
TursoTrim(rs, n) ==
  LET kept == LimitOffset(OrderByTimestampDesc(rs), n, 0)
      keptIds == {kept[i].id : i \in 1 .. Len(kept)}
  IN  SelectSeq(rs, LAMBDA r : r.id \in keptIds)

\* turso.ts getLogs: optional WHERE webhook_id = ?, ORDER BY timestamp DESC
TursoWhere(rs, webhookId) ==
  IF Truthy(webhookId) THEN SelectSeq(rs, LAMBDA r : r.webhook_id = webhookId) ELSE rs

MapSeq(seq, F(_)) == [i \in 1 .. Len(seq) |-> F(seq[i])]

TursoGetLogs(rs, webhookId) ==
  MapSeq(OrderByTimestampDesc(TursoWhere(rs, webhookId)), RowToLog)

\* turso.ts getLogsPaginated
TursoGetLogsPaginated(rs, page, pageSize, webhookId) ==
  LET total == Len(TursoWhere(rs, webhookId))
      totalPages == TotalPages(total, pageSize)
      pageNum == PageNum(page, totalPages)
      offset == (pageNum - 1) * pageSize
  IN  [logs |-> MapSeq(LimitOffset(OrderByTimestampDesc(TursoWhere(rs, webhookId)),
                                   pageSize, offset), RowToLog),
       total |-> total, page |-> pageNum, pageSize |-> pageSize,
       totalPages |-> totalPages, hasMore |-> pageNum < totalPages]

\* turso.ts getLogById
TursoGetLogById(rs, id) ==
  IF \E i \in 1 .. Len(rs) : rs[i].id = id
  THEN Some(RowToLog(rs[CHOOSE i \in 1 .. Len(rs) : rs[i].id = id]))
  ELSE None

\* The storage contract (storage/interface.ts) on the backend getStorage() selected
GetLogs(webhookId) ==
  IF STORAGE_TYPE = "turso" THEN TursoGetLogs(rows, webhookId)
  ELSE MemoryGetLogs(webhookLogs, webhookId)

GetLogsPaginated(page, pageSize, webhookId) ==
  IF STORAGE_TYPE = "turso" THEN TursoGetLogsPaginated(rows, page, pageSize, webhookId)
  ELSE MemoryGetLogsPaginated(webhookLogs, page, pageSize, webhookId)

GetLogById(id) ==
  IF STORAGE_TYPE = "turso" THEN TursoGetLogById(rows, id)
  ELSE MemoryGetLogById(webhookLogs, id)

\* ------------------------------------------------------------------ actions
\* handleWebhook from its entry to its first await (route.ts lines 61-164, and
\* lines 166-181 when no delay was asked for): the guards, the control parameters
\* and the admission to the delay window.
Arrive(r, in) ==
  /\ req[r].pc = "idle"
  /\ \A j \in 1 .. r - 1 : req[j].pc # "idle"   \* requests are numbered as they arrive
  /\ LET q0 == [Idle EXCEPT !.in = Some(in), !.at = Some(now)]
         rl == CheckRateLimit(rateLimitStore, GetClientIP(in), now)
         contentLength == GetContentLength(in)
         qr == [q0 EXCEPT !.remaining = Some(rl.remaining),
                          !.resetTime = Some(rl.resetTime)]
         q1 == [qr EXCEPT !.validStatusCode = ValidStatusCode(in),
                          !.validTimeoutSeconds = ValidTimeoutSeconds(in)]
     IN
     IF ~ValidateApiKey(in)
     THEN /\ req' = [req EXCEPT ![r] = Done(q0, Response(401, "auth"))]
          /\ UNCHANGED <<rateLimitStore, activeTimeoutRequests>>
     ELSE
       /\ rateLimitStore' = rl.store
       /\ IF ~rl.allowed
          THEN /\ req' = [req EXCEPT ![r] = Done(qr,
                            [Response(429, "rate") EXCEPT
                               !.retryAfter = Some(CeilDiv(rl.resetTime - now, MsPerSecond)),
                               !.remaining = Some(rl.remaining)])]
               /\ UNCHANGED activeTimeoutRequests
          ELSE IF contentLength # None /\ ~ValidatePayloadSize(Val(contentLength), MAX_BODY_SIZE)
          THEN /\ req' = [req EXCEPT ![r] = Done(qr,
                            [Response(413, "size") EXCEPT !.maxSize = Some(MAX_BODY_SIZE)])]
               /\ UNCHANGED activeTimeoutRequests
          ELSE IF q1.validTimeoutSeconds > 0 /\ ~CanStartTimeoutRequest(activeTimeoutRequests)
          THEN /\ req' = [req EXCEPT ![r] = Done(q1, Response(503, "busy"))]
               /\ UNCHANGED activeTimeoutRequests
          ELSE IF q1.validTimeoutSeconds * MsPerSecond > 0
          THEN /\ activeTimeoutRequests' = StartTimeoutRequest(activeTimeoutRequests)
               /\ req' = [req EXCEPT ![r] = [q1 EXCEPT !.pc = "sleeping",
                                                       !.startTime = Some(now)]]
          ELSE /\ req' = [req EXCEPT ![r] = [q1 EXCEPT !.pc = "reading"]]
               /\ UNCHANGED activeTimeoutRequests
  /\ UNCHANGED <<webhooks, api>>
  /\ UNCHANGED <<cfg, now, webhookLogs, rows, tieOrder, inserted>>

\* The delays served one after the other: a request resumes only when no request
\* that entered its delay earlier is still waiting
WakeInTurn(r) ==
  /\ req[r].pc = "sleeping"
  /\ now >= Val(req[r].startTime) + req[r].validTimeoutSeconds * MsPerSecond
  /\ \A j \in DOMAIN req : req[j].pc = "sleeping" => j >= r
  /\ activeTimeoutRequests' = EndTimeoutRequest(activeTimeoutRequests)
  /\ req' = [req EXCEPT ![r] = [@ EXCEPT !.pc = "reading", !.endTime = Some(now)]]
  /\ UNCHANGED <<webhooks, api>>
  /\ UNCHANGED <<cfg, now, rateLimitStore, webhookLogs, rows, tieOrder, inserted>>

\* setTimeout(resolve, validTimeoutMs) fires no earlier than validTimeoutMs after
\* it was set; then route.ts lines 160-181: endTime, the finally block, the
\* headers, up to the await of the body.
Wake(r) ==
  /\ req[r].pc = "sleeping"
  /\ now >= Val(req[r].startTime) + req[r].validTimeoutSeconds * MsPerSecond
  /\ activeTimeoutRequests' = EndTimeoutRequest(activeTimeoutRequests)
  /\ req' = [req EXCEPT ![r] = [@ EXCEPT !.pc = "reading", !.endTime = Some(now)]]
  /\ UNCHANGED <<webhooks, api>>
  /\ UNCHANGED <<cfg, now, rateLimitStore, webhookLogs, rows, tieOrder, inserted>>

\* route.ts lines 174-241: the body by content type, with its size guard.
\* [tooLarge, maxSize, body]
CaptureBody(in) ==
  IF in.contentType = "application/json"
  THEN [tooLarge |-> ~ValidatePayloadSize(TextLength(in.body), MAX_JSON_SIZE),
        maxSize |-> MAX_JSON_SIZE,
        body |-> IF JsonParseText(in.body) # None THEN Val(JsonParseText(in.body))
                 ELSE BodyNull]
  ELSE IF in.contentType = "application/x-www-form-urlencoded"
  THEN [tooLarge |-> ~ValidatePayloadSize(FormEstimatedSize(in.body), MAX_BODY_SIZE),
        maxSize |-> MAX_BODY_SIZE,
        body |-> FormValue(in.body)]
  ELSE [tooLarge |-> ~ValidatePayloadSize(TextLength(in.body), MAX_TEXT_SIZE),
        maxSize |-> MAX_TEXT_SIZE,
        body |-> TextValue(in.body)]

\* route.ts lines 243-261: the record handed to addWebhookLog
BuildLog(q, suffix) ==
  LET in == Val(q.in)
      path == PathOf(in.slug)
  IN  [id |-> <<now, suffix>>,
       timestamp |-> now,
       method |-> in.method,
       path |-> path,
       url |-> <<path, QueryParams(in)>>,
       statusCode |-> q.validStatusCode,
       timeout |-> IF q.validTimeoutSeconds > 0 THEN Some(q.validTimeoutSeconds) ELSE None,
       startTime |-> q.startTime,
       endTime |-> q.endTime,
       headers |-> CapturedHeaders(in),
       queryParams |-> QueryParams(in),
       body |-> CaptureBody(in).body,
       webhookId |-> ExtractWebhookIdFromPath(path)]

\* The record stored before the size of the body is checked
ReadBodyStoresFirst(r, suffixes) ==
  /\ req[r].pc = "reading"
  /\ \E suffix \in suffixes :
       LET q == req[r]
           cb == CaptureBody(Val(q.in))
           log == BuildLog(q, suffix)
           ql == [q EXCEPT !.log = Some(log)]
       IN
       IF STORAGE_TYPE = "turso"
       THEN /\ req' = [req EXCEPT ![r] = [ql EXCEPT !.pc = "inserting"]]
            /\ UNCHANGED <<webhookLogs, inserted>>
       ELSE /\ webhookLogs' = MemoryAddLog(webhookLogs, log)
            /\ inserted' = Append(inserted, log)
            /\ req' = [req EXCEPT ![r] =
                         IF cb.tooLarge
                         THEN Done(q, [Response(413, "size") EXCEPT !.maxSize = Some(cb.maxSize)])
                         ELSE Done(ql, SuccessResponse(ql))]
  /\ UNCHANGED <<webhooks, api>>
  /\ UNCHANGED <<cfg, now, rateLimitStore, activeTimeoutRequests, rows, tieOrder>>

\* The body has been read: route.ts lines 181-261, the size guard, the record, and
\* addWebhookLog up to its first await.  The in-memory backend has stored the
\* record by then (memory.ts addLog has no await before it) and lines 263-292
\* follow; the Turso backend has only sent nothing yet.
ReadBody(r, suffixes) ==
  /\ req[r].pc = "reading"
  /\ \E suffix \in suffixes :
       LET q == req[r]
           cb == CaptureBody(Val(q.in))
           log == BuildLog(q, suffix)
           ql == [q EXCEPT !.log = Some(log)]
       IN
       IF cb.tooLarge
       THEN /\ req' = [req EXCEPT ![r] = Done(q,
                         [Response(413, "size") EXCEPT !.maxSize = Some(cb.maxSize)])]
            /\ UNCHANGED <<webhookLogs, inserted>>
       ELSE IF STORAGE_TYPE = "turso"
       THEN /\ req' = [req EXCEPT ![r] = [ql EXCEPT !.pc = "inserting"]]
            /\ UNCHANGED <<webhookLogs, inserted>>
       ELSE /\ webhookLogs' = MemoryAddLog(webhookLogs, log)
            /\ inserted' = Append(inserted, log)
            /\ req' = [req EXCEPT ![r] = Done(ql, SuccessResponse(ql))]
  /\ UNCHANGED <<webhooks, api>>
  /\ UNCHANGED <<cfg, now, rateLimitStore, activeTimeoutRequests, rows, tieOrder>>

\* turso.ts addLog lines 94-116: the INSERT reaches the database.  id is the
\* primary key: a second row of the same id is refused, addLog throws and the
\* outer catch of handleWebhook answers 500.  Without a cap (line 120) addLog
\* returns and route.ts lines 263-292 follow.
TursoInsertLog(r) ==
  /\ req[r].pc = "inserting"
  /\ LET q == req[r]
         log == Val(q.log)
     IN
     IF \E i \in 1 .. Len(rows) : rows[i].id = log.id
     THEN /\ req' = [req EXCEPT ![r] = Done(q, ErrorResponse("UNIQUE constraint failed"))]
          /\ UNCHANGED <<rows, inserted>>
     ELSE /\ rows' = Append(rows, LogToRow(log))
          /\ inserted' = Append(inserted, log)
          /\ req' = [req EXCEPT ![r] =
                       IF maxLogs > 0 THEN [q EXCEPT !.pc = "trimming"]
                       ELSE Done(q, SuccessResponse(q))]
  /\ UNCHANGED <<webhooks, api>>
  /\ UNCHANGED <<cfg, now, rateLimitStore, activeTimeoutRequests, webhookLogs, tieOrder>>

\* turso.ts addLog lines 120-132: the DELETE reaches the database; then route.ts
\* lines 263-292.
TursoTrimLogs(r) ==
  /\ req[r].pc = "trimming"
  /\ rows' = TursoTrim(rows, maxLogs)
  /\ req' = [req EXCEPT ![r] = Done(req[r], SuccessResponse(req[r]))]
  /\ UNCHANGED <<webhooks, api>>
  /\ UNCHANGED <<cfg, now, rateLimitStore, activeTimeoutRequests, webhookLogs, tieOrder,
                 inserted>>

\* The wall clock advances, to one of the instants the model observes.
Tick(instants) ==
  /\ \E t \in instants : t > now /\ now' = t
  /\ UNCHANGED <<webhooks, api>>
  /\ UNCHANGED <<cfg, rateLimitStore, activeTimeoutRequests, webhookLogs, rows, tieOrder,
                 req, inserted>>

\* The sweep with the expiry tested with >= instead of >
SweepInclusive ==
  /\ rateLimitStore' =
       [i \in DOMAIN rateLimitStore |->
          IF rateLimitStore[i] # None /\ now >= Val(rateLimitStore[i]).resetTime
          THEN None ELSE rateLimitStore[i]]
  /\ UNCHANGED <<webhooks, api>>
  /\ UNCHANGED <<cfg, now, activeTimeoutRequests, webhookLogs, rows, tieOrder, req, inserted>>

\* security.ts lines 35-42: the periodic sweep of expired rate-limit entries
Sweep ==
  /\ rateLimitStore' =
       [i \in DOMAIN rateLimitStore |->
          IF rateLimitStore[i] # None /\ now > Val(rateLimitStore[i]).resetTime
          THEN None ELSE rateLimitStore[i]]
  /\ UNCHANGED <<webhooks, api>>
  /\ UNCHANGED <<cfg, now, activeTimeoutRequests, webhookLogs, rows, tieOrder, req, inserted>>

\* ----------------------------------------------------- management endpoints
\* A call of a management endpoint: credentials, cookie header, and the query,
\* path and body values the endpoints read.
BaseApiInput ==
  [authorization |-> None, xApiKey |-> None, apiKeyParam |-> None, cookie |-> None,
   webhookId |-> None, id |-> None, name |-> None, action |-> None,
   logId1 |-> None, logId2 |-> None]

\* session.ts getSessionIdFromRequest on the cookie headers the model sends:
\* split on ";" and "=", then cookies["webhook_session_id"] || null
GetSessionIdFromRequest(in) ==
  IF ~Truthy(in.cookie) THEN None
  ELSE CASE Val(in.cookie) = "webhook_session_id=s1" -> Some("s1")
         [] Val(in.cookie) = "theme=dark; webhook_session_id=s2" -> Some("s2")
         [] Val(in.cookie) = "webhook_session_id=" -> None
         [] OTHER -> None

Sessions == {"s1", "s2"}

\* The answer recorded for a call; seq alternates so that two equal calls in a
\* row are two steps.
ApiAnswer(op, in, status, kind) ==
  [seq |-> 1 - api.seq, op |-> op, in |-> in, status |-> status, kind |-> kind,
   out |-> None]

\* deleteLog reporting a removal it did not make
MemoryDeleteLogKeeps(logs, id) ==
  [logs |-> logs, deleted |-> \E i \in 1 .. Len(logs) : logs[i].id = id]

\* memory.ts deleteLog / turso.ts deleteLog: [logs or rows, deleted]
MemoryDeleteLog(logs, id) ==
  LET hits == {i \in 1 .. Len(logs) : logs[i].id = id}
  IN  IF hits = {} THEN [logs |-> logs, deleted |-> FALSE]
      ELSE LET index == CHOOSE i \in hits : \A j \in hits : i <= j
           IN  [logs |-> SubSeq(logs, 1, index - 1) \o SubSeq(logs, index + 1, Len(logs)),
                deleted |-> TRUE]

TursoDeleteLog(rs, id) ==
  [rows |-> SelectSeq(rs, LAMBDA row : row.id # id),
   deleted |-> \E i \in 1 .. Len(rs) : rs[i].id = id]

\* memory.ts clearLogs / turso.ts clearLogs
MemoryClearLogs(logs, webhookId) ==
  IF Truthy(webhookId) THEN SelectSeq(logs, LAMBDA log : log.webhookId # webhookId)
  ELSE << >>

TursoClearLogs(rs, webhookId) ==
  IF Truthy(webhookId) THEN SelectSeq(rs, LAMBDA row : row.webhook_id # webhookId)
  ELSE << >>

\* store.ts clearWebhookLogs(): clearLogs is called without an argument
ClearWebhookLogs ==
  /\ webhookLogs' = IF STORAGE_TYPE = "turso" THEN webhookLogs
                    ELSE MemoryClearLogs(webhookLogs, None)
  /\ rows' = IF STORAGE_TYPE = "turso" THEN TursoClearLogs(rows, None) ELSE rows

\* GET /api/logs (logs/route.ts lines 5-38)
LogsGET(in) ==
  /\ api' = IF ~ValidateApiKey(in) THEN ApiAnswer("GET /logs", in, 401, "auth")
            ELSE ApiAnswer("GET /logs", in, 200, "ok")
  /\ UNCHANGED <<cfg, now, rateLimitStore, activeTimeoutRequests, webhookLogs, rows,
                 tieOrder, req, inserted, webhooks>>

\* DELETE /api/logs (logs/route.ts lines 40-48)
LogsDELETE(in) ==
  /\ IF ~ValidateApiKey(in)
     THEN /\ api' = ApiAnswer("DELETE /logs", in, 401, "auth")
          /\ UNCHANGED <<webhookLogs, rows>>
     ELSE /\ ClearWebhookLogs
          /\ api' = ApiAnswer("DELETE /logs", in, 200, "ok")
  /\ UNCHANGED <<cfg, now, rateLimitStore, activeTimeoutRequests, tieOrder, req, inserted,
                 webhooks>>

\* DELETE /api/logs/{id} (logs/[id]/route.ts lines 5-22)
LogDELETE(in) ==
  /\ IF ~ValidateApiKey(in)
     THEN /\ api' = ApiAnswer("DELETE /logs/id", in, 401, "auth")
          /\ UNCHANGED <<webhookLogs, rows>>
     ELSE LET m == MemoryDeleteLog(webhookLogs, Val(in.id))
              t == TursoDeleteLog(rows, Val(in.id))
              deleted == IF STORAGE_TYPE = "turso" THEN t.deleted ELSE m.deleted
          IN  /\ webhookLogs' = IF STORAGE_TYPE = "turso" THEN webhookLogs ELSE m.logs
              /\ rows' = IF STORAGE_TYPE = "turso" THEN t.rows ELSE rows
              /\ api' = IF deleted THEN ApiAnswer("DELETE /logs/id", in, 200, "ok")
                        ELSE ApiAnswer("DELETE /logs/id", in, 404, "notfound")
  /\ UNCHANGED <<cfg, now, rateLimitStore, activeTimeoutRequests, tieOrder, req, inserted,
                 webhooks>>

\* `${Math.floor(log.statusCode / 100)}xx` (memory.ts line 112) and
\* CAST(status_code / 100 AS TEXT) || 'xx' (turso.ts lines 344-346) on the status
\* codes a record can hold
StatusGroup(statusCode) ==
  CASE statusCode \div 100 = 1 -> "1xx"
    [] statusCode \div 100 = 2 -> "2xx"
    [] statusCode \div 100 = 3 -> "3xx"
    [] statusCode \div 100 = 4 -> "4xx"
    [] statusCode \div 100 = 5 -> "5xx"

\* memory.ts getStats (lines 86-132): a record of counts, each Record<string, number>
\* a function from the keys that occur to their counts
MemoryGetStats(logs, webhookId) ==
  LET filteredLogs == MemoryGetLogs(logs, webhookId)
      ix == 1 .. Len(filteredLogs)
  IN  [totalLogs |-> Len(filteredLogs),
       logsByMethod |-> [m \in {filteredLogs[i].method : i \in ix} |->
                           Cardinality({i \in ix : filteredLogs[i].method = m})],
       logsByStatus |-> [g \in {StatusGroup(filteredLogs[i].statusCode) : i \in ix} |->
                           Cardinality({i \in ix :
                                          StatusGroup(filteredLogs[i].statusCode) = g})],
       logsByPath |-> [pa \in {filteredLogs[i].path : i \in ix} |->
                         Cardinality({i \in ix : filteredLogs[i].path = pa})]]

\* turso.ts getStats (lines 297-390): COUNT(*) and the three GROUP BY queries,
\* each with the optional WHERE webhook_id = ?
TursoGetStats(rs, webhookId) ==
  LET matching == TursoWhere(rs, webhookId)
      ix == 1 .. Len(matching)
  IN  [totalLogs |-> Len(matching),
       logsByMethod |-> [m \in {matching[i].method : i \in ix} |->
                           Cardinality({i \in ix : matching[i].method = m})],
       logsByStatus |-> [g \in {StatusGroup(matching[i].status_code) : i \in ix} |->
                           Cardinality({i \in ix : StatusGroup(matching[i].status_code) = g})],
       logsByPath |-> [pa \in {matching[i].path : i \in ix} |->
                         Cardinality({i \in ix : matching[i].path = pa})]]

GetStats(webhookId) ==
  IF STORAGE_TYPE = "turso" THEN TursoGetStats(rows, webhookId)
  ELSE MemoryGetStats(webhookLogs, webhookId)

\* GET /api/analytics (analytics/route.ts lines 5-71): storage.getStats() is called
\* without an argument; the payload carries the total, the count of every status
\* group and method, and the count of every path (topPaths keeps the ten most
\* frequent paths, which is all of them while there are at most ten).
AnalyticsGET(in) ==
  /\ api' = IF ~ValidateApiKey(in) THEN ApiAnswer("GET /analytics", in, 401, "auth")
            ELSE LET stats == GetStats(None)
                 IN  [ApiAnswer("GET /analytics", in, 200, "ok") EXCEPT
                        !.out = Some([totalLogs |-> stats.totalLogs,
                                      byStatus |-> stats.logsByStatus,
                                      byMethod |-> stats.logsByMethod,
                                      topPaths |-> stats.logsByPath])]
  /\ UNCHANGED <<cfg, now, rateLimitStore, activeTimeoutRequests, webhookLogs, rows,
                 tieOrder, req, inserted, webhooks>>

\* log.headers[key]: the value of a key of a stored header map, None when the
\* map has no such key (undefined)
HeaderValue(headers, key) ==
  IF \E h \in headers : h[1] = key
  THEN Some((CHOOSE h \in headers : h[1] = key)[2])
  ELSE None

\* test/route.ts compareLogs (lines 202-248); a differences array is written as
\* the set of its messages
CompareLogs(log1, log2) ==
  LET bodySame == JsonStringify(log1.body) = JsonStringify(log2.body)
      allHeaderKeys == {h[1] : h \in log1.headers \cup log2.headers}
      headerDifferences ==
        {<<"Header differs", key>> :
           key \in {k \in allHeaderKeys :
                      HeaderValue(log1.headers, k) # HeaderValue(log2.headers, k)}}
  IN  [method |-> [same |-> log1.method = log2.method],
       statusCode |-> [same |-> log1.statusCode = log2.statusCode],
       path |-> [same |-> log1.path = log2.path],
       body |-> [same |-> bodySame,
                 differences |-> IF ~bodySame THEN {"Body content differs"} ELSE {}],
       headers |-> [same |-> headerDifferences = {},
                    differences |-> headerDifferences]]

\* POST /api/test, action compare (test/route.ts lines 9-13 and 102-132)
TestPOST(in) ==
  /\ api' =
       IF ~ValidateApiKey(in) THEN ApiAnswer("POST /test", in, 401, "auth")
       ELSE IF in.action # Some("compare") THEN ApiAnswer("POST /test", in, 400, "bad")
       ELSE IF ~Truthy(in.logId1) \/ ~Truthy(in.logId2)
       THEN ApiAnswer("POST /test", in, 400, "bad")
       ELSE IF GetLogById(Val(in.logId1)) = None \/ GetLogById(Val(in.logId2)) = None
       THEN ApiAnswer("POST /test", in, 404, "notfound")
       ELSE [ApiAnswer("POST /test", in, 200, "ok") EXCEPT
               !.out = Some(CompareLogs(Val(GetLogById(Val(in.logId1))),
                                        Val(GetLogById(Val(in.logId2)))))]
  /\ UNCHANGED <<cfg, now, rateLimitStore, activeTimeoutRequests, webhookLogs, rows,
                 tieOrder, req, inserted, webhooks>>

\* webhooks.ts: the bucket list of a session (webhooks.get(sessionId) || [])
GetWebhooksBySession(sessionId) == webhooks[sessionId]

MaxWebhooksPerSession == 3

\* `webhook_${Date.now()}_${Math.random().toString(36).substr(2, 9)}` for the
\* instants and random draws of the model
WebhookIdString(t, suffix) ==
  CASE t = 0 /\ suffix = "k3j9x" -> "webhook_0_k3j9x"
    [] t = 0 /\ suffix = "p0q2m" -> "webhook_0_p0q2m"
    [] t = MsPerSecond /\ suffix = "k3j9x" -> "webhook_1000_k3j9x"
    [] t = MsPerSecond /\ suffix = "p0q2m" -> "webhook_1000_p0q2m"

\* createWebhook with the cap tested with > instead of >=
CreateWebhookOneMore(sessionId, name, suffix) ==
  LET sessionWebhooks == webhooks[sessionId]
      webhook == [id |-> WebhookIdString(now, suffix), sessionId |-> sessionId,
                  name |-> name, createdAt |-> now,
                  url |-> <<"webhooks", WebhookIdString(now, suffix)>>]
  IN  IF Len(sessionWebhooks) > MaxWebhooksPerSession
      THEN [ok |-> FALSE, webhooks |-> webhooks]
      ELSE [ok |-> TRUE,
            webhooks |-> [webhooks EXCEPT ![sessionId] = Append(sessionWebhooks, webhook)]]

\* webhooks.ts createWebhook: [ok, webhooks]; ok is FALSE when it throws
CreateWebhook(sessionId, name, suffix) ==
  LET sessionWebhooks == webhooks[sessionId]
      webhookId == WebhookIdString(now, suffix)
      webhook == [id |-> webhookId, sessionId |-> sessionId, name |-> name,
                  createdAt |-> now, url |-> <<"webhooks", webhookId>>]
  IN  IF Len(sessionWebhooks) >= MaxWebhooksPerSession
      THEN [ok |-> FALSE, webhooks |-> webhooks]
      ELSE [ok |-> TRUE,
            webhooks |-> [webhooks EXCEPT ![sessionId] = Append(sessionWebhooks, webhook)]]

\* deleteWebhook looking the bucket up in the lists of every session
DeleteWebhookOfAnySession(sessionId, webhookId) ==
  LET Keep(list) == SelectSeq(list, LAMBDA w : w.id # webhookId)
  IN  [deleted |-> \E s \in DOMAIN webhooks : Keep(webhooks[s]) # webhooks[s],
       webhooks |-> [s \in DOMAIN webhooks |-> Keep(webhooks[s])]]

\* webhooks.ts deleteWebhook: [deleted, webhooks]
DeleteWebhook(sessionId, webhookId) ==
  LET sessionWebhooks == webhooks[sessionId]
      hits == {i \in 1 .. Len(sessionWebhooks) : sessionWebhooks[i].id = webhookId}
  IN  IF hits = {} THEN [deleted |-> FALSE, webhooks |-> webhooks]
      ELSE LET index == CHOOSE i \in hits : \A j \in hits : i <= j
           IN  [deleted |-> TRUE,
                webhooks |-> [webhooks EXCEPT ![sessionId] =
                                SubSeq(sessionWebhooks, 1, index - 1)
                                  \o SubSeq(sessionWebhooks, index + 1, Len(sessionWebhooks))]]

\* name.trim() of the bucket names the model sends
TrimName(name) == IF name = " " THEN "" ELSE name

\* GET /api/webhooks (webhooks/route.ts lines 10-21)
WebhooksGET(in) ==
  /\ api' = IF GetSessionIdFromRequest(in) = None
            THEN ApiAnswer("GET /webhooks", in, 401, "session")
            ELSE ApiAnswer("GET /webhooks", in, 200, "ok")
  /\ UNCHANGED <<cfg, now, rateLimitStore, activeTimeoutRequests, webhookLogs, rows,
                 tieOrder, req, inserted, webhooks>>

\* POST /api/webhooks (webhooks/route.ts lines 23-58)
WebhooksPOST(in, suffixes) ==
  /\ LET sessionId == GetSessionIdFromRequest(in)
     IN  IF sessionId = None
         THEN /\ api' = ApiAnswer("POST /webhooks", in, 401, "session")
              /\ UNCHANGED webhooks
         ELSE IF ~Truthy(in.name) \/ TrimName(Val(in.name)) = ""
         THEN /\ api' = ApiAnswer("POST /webhooks", in, 400, "bad")
              /\ UNCHANGED webhooks
         ELSE \E suffix \in suffixes :
                LET c == CreateWebhook(Val(sessionId), TrimName(Val(in.name)), suffix)
                IN  /\ webhooks' = c.webhooks
                    /\ api' = IF c.ok THEN ApiAnswer("POST /webhooks", in, 201, "ok")
                              ELSE ApiAnswer("POST /webhooks", in, 400, "max")
  /\ UNCHANGED <<cfg, now, rateLimitStore, activeTimeoutRequests, webhookLogs, rows,
                 tieOrder, req, inserted>>

\* DELETE /api/webhooks (webhooks/route.ts lines 60-96)
WebhooksDELETE(in) ==
  /\ LET sessionId == GetSessionIdFromRequest(in)
     IN  IF sessionId = None
         THEN /\ api' = ApiAnswer("DELETE /webhooks", in, 401, "session")
              /\ UNCHANGED webhooks
         ELSE IF in.webhookId = None
         THEN /\ api' = ApiAnswer("DELETE /webhooks", in, 400, "bad")
              /\ UNCHANGED webhooks
         ELSE LET d == DeleteWebhook(Val(sessionId), Val(in.webhookId))
              IN  /\ webhooks' = d.webhooks
                  /\ api' = IF d.deleted THEN ApiAnswer("DELETE /webhooks", in, 200, "ok")
                            ELSE ApiAnswer("DELETE /webhooks", in, 404, "notfound")
  /\ UNCHANGED <<cfg, now, rateLimitStore, activeTimeoutRequests, webhookLogs, rows,
                 tieOrder, req, inserted>>

\* turso.ts addLog (lines 90-137) when nothing else reaches the database between
\* its INSERT and its DELETE: [rows, threw]
TursoAddLog(rs, log) ==
  IF \E i \in 1 .. Len(rs) : rs[i].id = log.id
  THEN [rows |-> rs, threw |-> TRUE]
  ELSE [rows |-> IF maxLogs > 0 THEN TursoTrim(Append(rs, LogToRow(log)), maxLogs)
                 ELSE Append(rs, LogToRow(log)),
        threw |-> FALSE]

\* The same call of the storage contract (interface.ts IStorage) made on a
\* MemoryStorage and on a TursoStorage, each call awaited before the next.
StorageAddLog(log) ==
  /\ Len(inserted) < NumRequests
  /\ webhookLogs' = MemoryAddLog(webhookLogs, log)
  /\ rows' = TursoAddLog(rows, log).rows
  /\ inserted' = Append(inserted, log)
  /\ UNCHANGED <<cfg, now, rateLimitStore, activeTimeoutRequests, tieOrder, req, webhooks,
                 api>>

StorageDeleteLog(id) ==
  /\ webhookLogs' = MemoryDeleteLog(webhookLogs, id).logs
  /\ rows' = TursoDeleteLog(rows, id).rows
  /\ UNCHANGED <<cfg, now, rateLimitStore, activeTimeoutRequests, tieOrder, req, inserted,
                 webhooks, api>>

StorageClearLogs(webhookId) ==
  /\ webhookLogs' = MemoryClearLogs(webhookLogs, webhookId)
  /\ rows' = TursoClearLogs(rows, webhookId)
  /\ UNCHANGED <<cfg, now, rateLimitStore, activeTimeoutRequests, tieOrder, req, inserted,
                 webhooks, api>>

\* ----------------------------------------------------------- specifications
\* A request the model sends unless said otherwise
BaseInput ==
  [method |-> "POST", slug |-> <<"orders">>, xForwardedFor |-> None, xRealIp |-> None,
   authorization |-> None, xApiKey |-> None, apiKeyParam |-> None,
   statusCode |-> None, timeout |-> None,
   contentType |-> "text/plain", body |-> "abc", contentLength |-> TRUE,
   xVercel |-> FALSE, extraHeaders |-> {}]

BaseConfig ==
  [RATE_LIMIT_REQUESTS |-> 100, RATE_LIMIT_WINDOW_MS |-> 60000,
   MAX_BODY_SIZE |-> 4, MAX_JSON_SIZE |-> 4, MAX_TEXT_SIZE |-> 4,
   MAX_TIMEOUT_SECONDS |-> 1, MAX_CONCURRENT_TIMEOUT_REQUESTS |-> 2,
   MAX_LOGS |-> None, STORAGE_TYPE |-> "memory",
   AUTH_ENABLED |-> FALSE, API_KEYS |-> {}]

InitState ==
  /\ now = 0
  /\ rateLimitStore = [i \in Identifiers |-> None]
  /\ activeTimeoutRequests = 0
  /\ webhookLogs = << >>
  /\ rows = << >>
  /\ req = [r \in RateReq |-> Idle]
  /\ inserted = << >>
  /\ webhooks = [sessionId \in Sessions |-> << >>]
  /\ api = [seq |-> 0, op |-> "none", in |-> BaseApiInput, status |-> 0, kind |-> "none",
            out |-> None]

\* Spec: concurrent capture requests with and without an artificial delay.
DelayInputs ==
  {[BaseInput EXCEPT !.timeout = t] : t \in {None, Some("0"), Some("1"), Some("2")}}

Init ==
  /\ cfg = BaseConfig
  /\ tieOrder = "rowid_asc"
  /\ InitState

Next ==
  \/ \E r \in Req, in \in DelayInputs : Arrive(r, in)
  \/ \E r \in Req : Wake(r)
  \/ \E r \in Req : ReadBody(r, {"k3j9x"})
  \/ Tick(Seconds)

Spec == Init /\ [][Next]_vars

\* SpecRate: requests of one client against the rate limiter, around the edges
\* of its window, under each ceiling up to MaxCeiling.
MaxCeiling == 3

RateInputs ==
  {[BaseInput EXCEPT !.xForwardedFor = Some("10.0.0.1"), !.body = b] : b \in {"abc", "[1,2]"}}

\* The start of a window, an instant inside it, its last instant (resetTime itself)
\* and the first instant after it, for a window of one second opened at 0.
RateInstants == {0, 1, MsPerSecond, MsPerSecond + 1}

InitRate ==
  /\ cfg \in {[BaseConfig EXCEPT !.RATE_LIMIT_REQUESTS = n, !.RATE_LIMIT_WINDOW_MS = MsPerSecond]
               : n \in 1 .. MaxCeiling}
  /\ tieOrder = "rowid_asc"
  /\ InitState

NextRate ==
  \/ \E r \in RateReq, in \in RateInputs : Arrive(r, in)
  \/ \E r \in RateReq : ReadBody(r, {"k3j9x"})
  \/ Tick(RateInstants)
  \/ Sweep

SpecRate == InitRate /\ [][NextRate]_vars

\* SpecStore: captures reaching either backend, with a cap on the retained
\* records, for either order the SQL engine may give rows of equal timestamp.
MaxCap == 2

StoreInputs == {[BaseInput EXCEPT !.slug = <<"webhook_a", "x">>]}

InitStore ==
  /\ cfg \in {[BaseConfig EXCEPT !.STORAGE_TYPE = st, !.MAX_LOGS = Some(n)]
               : st \in {"memory", "turso"}, n \in 1 .. MaxCap}
  /\ tieOrder \in {"rowid_asc", "rowid_desc"}
  /\ InitState

NextStore ==
  \/ \E r \in Req, in \in StoreInputs : Arrive(r, in)
  \/ \E r \in Req : ReadBody(r, {"k3j9x", "p0q2m"})
  \/ \E r \in Req : TursoInsertLog(r)
  \/ \E r \in Req : TursoTrimLogs(r)
  \/ Tick({0, MsPerSecond})

SpecStore == InitStore /\ [][NextStore]_vars

\* SpecCapture: one capture request, over the query strings, content types,
\* bodies and size ceilings the claims distinguish.
CaptureInputs ==
  {[BaseInput EXCEPT !.statusCode = sc, !.timeout = t, !.contentType = ct,
                     !.body = b, !.contentLength = cl]
     : sc \in {None, Some(""), Some("99"), Some("100"), Some("204"), Some("404"),
               Some("599"), Some("600"), Some("abc"), Some("404abc")},
       t \in {None, Some("1")},
       ct \in {"application/json", "application/x-www-form-urlencoded", "text/plain"},
       b \in {"1", "[1,2]", "\"E\"", "abc"},
       cl \in BOOLEAN}

InitCapture ==
  /\ cfg \in {[BaseConfig EXCEPT !.MAX_BODY_SIZE = mb, !.MAX_JSON_SIZE = mj]
               : mb \in {3, 4}, mj \in {3, 4}}
  /\ tieOrder = "rowid_asc"
  /\ InitState

NextCapture ==
  \/ \E in \in CaptureInputs : Arrive(1, in)
  \/ Wake(1)
  \/ ReadBody(1, {"k3j9x"})
  \/ Tick(Seconds)

SpecCapture == InitCapture /\ [][NextCapture]_vars

\* SpecHeaders: one request carrying any set of the extra header names, stored
\* by either backend.
HeaderInputs == {[BaseInput EXCEPT !.extraHeaders = hs] : hs \in SUBSET HeaderNames}

InitHeaders ==
  /\ cfg \in {[BaseConfig EXCEPT !.STORAGE_TYPE = st] : st \in {"memory", "turso"}}
  /\ tieOrder = "rowid_asc"
  /\ InitState

NextHeaders ==
  \/ \E in \in HeaderInputs : Arrive(1, in)
  \/ ReadBody(1, {"k3j9x"})
  \/ TursoInsertLog(1)
  \/ Tick(Seconds)

SpecHeaders == InitHeaders /\ [][NextHeaders]_vars

\* SpecAuth: one request with any combination of credentials, against every
\* configuration of the API-key guard.
AuthInputs ==
  {[BaseInput EXCEPT !.authorization = a, !.xApiKey = x, !.apiKeyParam = q]
     : a \in {None, Some("Bearer k1"), Some("ApiKey k1"), Some("bearer k1"),
              Some("Basic k1"), Some("k1"), Some("Bearer bad")},
       x \in {None, Some("k1"), Some("bad")},
       q \in {None, Some("k1"), Some("bad")}}

InitAuth ==
  /\ cfg \in {[BaseConfig EXCEPT !.AUTH_ENABLED = e, !.API_KEYS = ks]
               : e \in BOOLEAN, ks \in {{}, {"k1"}}}
  /\ tieOrder = "rowid_asc"
  /\ InitState

NextAuth ==
  \/ \E in \in AuthInputs : Arrive(1, in)
  \/ ReadBody(1, {"k3j9x"})
  \/ Tick(Seconds)

SpecAuth == InitAuth /\ [][NextAuth]_vars

\* SpecApi: captures and calls of every management endpoint, with and without
\* a key and a session cookie, with the API-key guard off and on.
ApiCaptureInputs ==
  {[BaseInput EXCEPT !.slug = sl, !.xApiKey = x]
     : sl \in {<<"webhook_a">>, <<"orders">>}, x \in {None, Some("k1")}}

ApiInputs ==
  {[BaseApiInput EXCEPT !.xApiKey = x, !.authorization = a, !.cookie = c,
                        !.id = Some(<<0, "k3j9x">>), !.name = Some("hook"),
                        !.webhookId = Some("webhook_0_k3j9x"),
                        !.action = Some("compare"),
                        !.logId1 = Some(<<0, "k3j9x">>), !.logId2 = Some(<<0, "k3j9x">>)]
     : x \in {None, Some("k1")}, a \in {None, Some("Bearer bad")},
       c \in {None, Some("webhook_session_id=s1")}}

InitApi ==
  /\ cfg \in {[BaseConfig EXCEPT !.STORAGE_TYPE = st, !.API_KEYS = ks]
               : st \in {"memory", "turso"}, ks \in {{}, {"k1"}}}
  /\ tieOrder = "rowid_asc"
  /\ InitState

NextApi ==
  \/ \E in \in ApiCaptureInputs : Arrive(1, in)
  \/ ReadBody(1, {"k3j9x"})
  \/ TursoInsertLog(1)
  \/ \E in \in ApiInputs : LogsGET(in)
  \/ \E in \in ApiInputs : LogsDELETE(in)
  \/ \E in \in ApiInputs : LogDELETE(in)
  \/ \E in \in ApiInputs : AnalyticsGET(in)
  \/ \E in \in ApiInputs : TestPOST(in)
  \/ \E in \in ApiInputs : WebhooksGET(in)
  \/ \E in \in ApiInputs : WebhooksPOST(in, {"k3j9x"})
  \/ \E in \in ApiInputs : WebhooksDELETE(in)

SpecApi == InitApi /\ [][NextApi]_vars

\* SpecRange: one request with any statusCode and timeout query value, stored by
\* either backend, under two ceilings of the delay.
RangeInputs ==
  {[BaseInput EXCEPT !.statusCode = sc, !.timeout = t]
     : sc \in {None, Some(""), Some("-1"), Some("99"), Some("100"), Some("404"),
               Some("599"), Some("600"), Some("abc"), Some("404abc")},
       t \in {None, Some(""), Some("0"), Some("1"), Some("2"), Some("3"), Some("-1"),
              Some("2s"), Some("1.5"), Some("abc")}}

InitRange ==
  /\ cfg \in {[BaseConfig EXCEPT !.STORAGE_TYPE = st, !.MAX_TIMEOUT_SECONDS = m]
               : st \in {"memory", "turso"}, m \in {1, 2}}
  /\ tieOrder = "rowid_asc"
  /\ InitState

NextRange ==
  \/ \E in \in RangeInputs : Arrive(1, in)
  \/ Wake(1)
  \/ ReadBody(1, {"k3j9x"})
  \/ TursoInsertLog(1)
  \/ Tick(Seconds)

SpecRange == InitRange /\ [][NextRange]_vars

\* SpecOrder: captures with and without a delay, to a named webhook and to a
\* plain path, finishing in any order; no cap on the store.
OrderReq == 1 .. NumRequests - 1

OrderInputs ==
  {[BaseInput EXCEPT !.slug = sl, !.timeout = t]
     : sl \in {<<"webhook_a">>, <<"orders">>}, t \in {None, Some("1")}}

InitOrder ==
  /\ cfg \in {[BaseConfig EXCEPT !.STORAGE_TYPE = st] : st \in {"memory", "turso"}}
  /\ tieOrder \in {"rowid_asc", "rowid_desc"}
  /\ InitState

NextOrder ==
  \/ \E r \in OrderReq, in \in OrderInputs : Arrive(r, in)
  \/ \E r \in OrderReq : Wake(r)
  \/ \E r \in OrderReq : ReadBody(r, {"k3j9x", "p0q2m"})
  \/ \E r \in OrderReq : TursoInsertLog(r)
  \/ Tick(Seconds)

SpecOrder == InitOrder /\ [][NextOrder]_vars

\* SpecDelete: captures to a named webhook and to a plain path, and calls that
\* delete one record by id or clear the logs.
LogIds == {<<t, suffix>> : t \in {0, MsPerSecond}, suffix \in {"k3j9x", "p0q2m"}}

DeleteInputs ==
  {[BaseInput EXCEPT !.slug = sl] : sl \in {<<"webhook_a">>, <<"orders">>}}

InitDelete ==
  /\ cfg \in {[BaseConfig EXCEPT !.STORAGE_TYPE = st] : st \in {"memory", "turso"}}
  /\ tieOrder \in {"rowid_asc", "rowid_desc"}
  /\ InitState

NextDelete ==
  \/ \E r \in OrderReq, in \in DeleteInputs : Arrive(r, in)
  \/ \E r \in OrderReq : ReadBody(r, {"k3j9x", "p0q2m"})
  \/ \E r \in OrderReq : TursoInsertLog(r)
  \/ \E id \in LogIds : LogDELETE([BaseApiInput EXCEPT !.id = Some(id)])
  \/ \E w \in {None, Some("webhook_a"), Some("webhook_b")} :
       LogsDELETE([BaseApiInput EXCEPT !.webhookId = w])
  \/ Tick({0, MsPerSecond})

SpecDelete == InitDelete /\ [][NextDelete]_vars

\* SpecBuckets: two sessions creating, listing and deleting named webhooks.
SessionCookies ==
  {None, Some("webhook_session_id=s1"), Some("theme=dark; webhook_session_id=s2"),
   Some("webhook_session_id=")}

BucketIds == {"webhook_0_k3j9x", "webhook_1000_k3j9x"}

InitBuckets ==
  /\ cfg = BaseConfig
  /\ tieOrder = "rowid_asc"
  /\ InitState

NextBuckets ==
  \/ \E c \in SessionCookies : WebhooksGET([BaseApiInput EXCEPT !.cookie = c])
  \/ \E c \in SessionCookies, n \in {None, Some(" "), Some("hook")} :
       WebhooksPOST([BaseApiInput EXCEPT !.cookie = c, !.name = n], {"k3j9x"})
  \/ \E c \in SessionCookies, w \in {None} \cup {Some(id) : id \in BucketIds} :
       WebhooksDELETE([BaseApiInput EXCEPT !.cookie = c, !.webhookId = w])
  \/ Tick({0, MsPerSecond})

SpecBuckets == InitBuckets /\ [][NextBuckets]_vars

\* SpecGuards: concurrent captures of one client against every guard at once: a
\* configured key, a ceiling of two requests per window, a body ceiling and a
\* delay window of one slot; stored by either backend.
GuardInputs ==
  {[BaseInput EXCEPT !.xApiKey = x, !.timeout = t, !.body = b[1], !.contentLength = b[2]]
     : x \in {None, Some("k1")}, t \in {None, Some("1")},
       b \in {<<"abc", TRUE>>, <<"[1,2]", TRUE>>, <<"[1,2]", FALSE>>}}

InitGuards ==
  /\ cfg \in {[BaseConfig EXCEPT !.STORAGE_TYPE = st, !.API_KEYS = {"k1"},
                                 !.RATE_LIMIT_REQUESTS = 2,
                                 !.RATE_LIMIT_WINDOW_MS = MsPerSecond,
                                 !.MAX_CONCURRENT_TIMEOUT_REQUESTS = 1]
               : st \in {"memory", "turso"}}
  /\ tieOrder = "rowid_asc"
  /\ InitState

NextGuards ==
  \/ \E r \in Req, in \in GuardInputs : Arrive(r, in)
  \/ \E r \in Req : Wake(r)
  \/ \E r \in Req : ReadBody(r, {"k3j9x"})
  \/ \E r \in Req : TursoInsertLog(r)
  \/ Tick(Seconds)

SpecGuards == InitGuards /\ [][NextGuards]_vars

\* SpecStats: captures of two methods, two status groups and two paths, one of
\* them of a named webhook, and analytics calls with and without a scope.
StatsInputs ==
  {[BaseInput EXCEPT !.method = m, !.slug = sl, !.statusCode = sc]
     : m \in {"GET", "POST"}, sl \in {<<"webhook_a">>, <<"orders">>},
       sc \in {None, Some("404")}}

InitStats ==
  /\ cfg \in {[BaseConfig EXCEPT !.STORAGE_TYPE = st] : st \in {"memory", "turso"}}
  /\ tieOrder = "rowid_asc"
  /\ InitState

NextStats ==
  \/ \E r \in OrderReq, in \in StatsInputs : Arrive(r, in)
  \/ \E r \in OrderReq : ReadBody(r, {"k3j9x"})
  \/ \E r \in OrderReq : TursoInsertLog(r)
  \/ \E w \in {None, Some("webhook_a"), Some("webhook_b")} :
       AnalyticsGET([BaseApiInput EXCEPT !.webhookId = w])
  \/ Tick({0, MsPerSecond})

SpecStats == InitStats /\ [][NextStats]_vars

\* SpecBackends: one sequence of addLog / deleteLog / clearLogs calls applied to
\* both backends under the same cap, with records whose timestamps tie or run
\* against the order of the calls.
SampleLog(id, timestamp, slug) ==
  [id |-> id, timestamp |-> timestamp, method |-> "POST", path |-> PathOf(slug),
   url |-> <<PathOf(slug), {}>>, statusCode |-> 200, timeout |-> None,
   startTime |-> None, endTime |-> None, headers |-> {<<"content-type", "text/plain">>},
   queryParams |-> {}, body |-> "str:abc",
   webhookId |-> ExtractWebhookIdFromPath(PathOf(slug))]

SampleLogs ==
  {SampleLog(id, id[1], slug) : id \in LogIds, slug \in {<<"webhook_a">>, <<"orders">>}}

InitBackends ==
  /\ cfg \in {[BaseConfig EXCEPT !.MAX_LOGS = Some(n)] : n \in 1 .. MaxCap + 1}
  /\ tieOrder \in {"rowid_asc", "rowid_desc"}
  /\ InitState

NextBackends ==
  \/ \E log \in SampleLogs : StorageAddLog(log)
  \/ \E id \in LogIds : StorageDeleteLog(id)
  \/ \E w \in {None, Some("webhook_a")} : StorageClearLogs(w)

SpecBackends == InitBackends /\ [][NextBackends]_vars

\* SpecLive: concurrent captures with delays of different lengths, whose timers
\* and continuations the event loop runs: every timer that is due fires, every
\* continuation that is ready runs, and the clock advances.  A request arrives
\* while the instants of the model still cover its delay.
LiveInputs == {[BaseInput EXCEPT !.timeout = t] : t \in {None, Some("1"), Some("2")}}

\* Math.random().toString(36).substr(2, 9) of each request: draws that differ
RandomSuffix(r) ==
  CASE r = 1 -> "k3j9x" [] r = 2 -> "p0q2m" [] r = 3 -> "z8w1c" [] r = 4 -> "b5t7n"
    [] OTHER -> "h4d6v"

InitLive ==
  /\ cfg \in {[BaseConfig EXCEPT !.STORAGE_TYPE = st, !.MAX_TIMEOUT_SECONDS = 2]
               : st \in {"memory", "turso"}}
  /\ tieOrder = "rowid_asc"
  /\ InitState

NextLive ==
  \/ \E r \in Req, in \in LiveInputs :
       /\ now + ValidTimeoutSeconds(in) * MsPerSecond <= MaxClockSeconds * MsPerSecond
       /\ Arrive(r, in)
  \/ \E r \in Req : Wake(r)
  \/ \E r \in Req : ReadBody(r, {RandomSuffix(r)})
  \/ \E r \in Req : TursoInsertLog(r)
  \/ Tick(Seconds)

Fairness ==
  /\ WF_vars(Tick(Seconds))
  /\ \A r \in Req : WF_vars(Wake(r))
  /\ \A r \in Req : WF_vars(ReadBody(r, {RandomSuffix(r)}))
  /\ \A r \in Req : WF_vars(TursoInsertLog(r))

SpecLive == InitLive /\ [][NextLive]_vars /\ Fairness

\* SpecCompare: two captures with JSON bodies that differ in value, in key order
\* or in spacing only, and with different methods and headers, then
\* compared through the test tools.
CompareInputs ==
  {[BaseInput EXCEPT !.contentType = "application/json", !.method = m,
                     !.body = b, !.extraHeaders = hs]
     : m \in {"GET", "POST"},
       b \in {"[1,2]", "[1, 2]", "{\"a\":1,\"b\":2}", "{\"b\":2,\"a\":1}", "1"},
       hs \in {{}, {"X-Custom"}}}

CompareIds == {<<0, RandomSuffix(r)>> : r \in OrderReq}

InitCompare ==
  /\ cfg \in {[BaseConfig EXCEPT !.STORAGE_TYPE = st, !.MAX_BODY_SIZE = 20,
                                 !.MAX_JSON_SIZE = 20]
               : st \in {"memory", "turso"}}
  /\ tieOrder = "rowid_asc"
  /\ InitState

NextCompare ==
  \/ \E r \in OrderReq, in \in CompareInputs : Arrive(r, in)
  \/ \E r \in OrderReq : ReadBody(r, {RandomSuffix(r)})
  \/ \E r \in OrderReq : TursoInsertLog(r)
  \/ \E id1 \in CompareIds, id2 \in CompareIds :
       TestPOST([BaseApiInput EXCEPT !.action = Some("compare"),
                                     !.logId1 = Some(id1), !.logId2 = Some(id2)])

SpecCompare == InitCompare /\ [][NextCompare]_vars

\* SpecScope: captures on paths with and without a webhook id as first segment,
\* while a session creates and deletes the bucket of one of those ids.
ScopeSlugs ==
  {<<"webhook_0_k3j9x">>, <<"webhook_a", "x">>, <<"webhook_">>, <<"orders", "webhook_a">>,
   << >>}

ScopeInputs == {[BaseInput EXCEPT !.slug = sl] : sl \in ScopeSlugs}

ScopeIds == {"webhook_0_k3j9x", "webhook_a", "webhook_", "orders"}

InitScope ==
  /\ cfg \in {[BaseConfig EXCEPT !.STORAGE_TYPE = st] : st \in {"memory", "turso"}}
  /\ tieOrder = "rowid_asc"
  /\ InitState

NextScope ==
  \/ \E r \in Req, in \in ScopeInputs : Arrive(r, in)
  \/ \E r \in Req : ReadBody(r, {RandomSuffix(r)})
  \/ \E r \in Req : TursoInsertLog(r)
  \/ WebhooksPOST([BaseApiInput EXCEPT !.cookie = Some("webhook_session_id=s1"),
                                       !.name = Some("hook")], {"k3j9x"})
  \/ WebhooksDELETE([BaseApiInput EXCEPT !.cookie = Some("webhook_session_id=s1"),
                                         !.webhookId = Some("webhook_0_k3j9x")])

SpecScope == InitScope /\ [][NextScope]_vars

\* SpecClients: requests of several clients, told apart by x-forwarded-for and
\* x-real-ip or by neither, against ceilings of one and two per window, with the
\* periodic sweep.
ClientInputs ==
  {[BaseInput EXCEPT !.xForwardedFor = f, !.xRealIp = ip]
     : f \in {None, Some(""), Some("10.0.0.1"), Some("10.0.0.1, 10.0.0.2")},
       ip \in {None, Some("10.0.0.2")}}

InitClients ==
  /\ cfg \in {[BaseConfig EXCEPT !.RATE_LIMIT_REQUESTS = n, !.RATE_LIMIT_WINDOW_MS = MsPerSecond]
               : n \in 1 .. MaxCeiling - 1}
  /\ tieOrder = "rowid_asc"
  /\ InitState

NextClients ==
  \/ \E r \in Req, in \in ClientInputs : Arrive(r, in)
  \/ \E r \in Req : ReadBody(r, {"k3j9x"})
  \/ Tick({0, MsPerSecond + 1})
  \/ Sweep

SpecClients == InitClients /\ [][NextClients]_vars

\* ------------------------------------------------------------------- claims
Sleeping == {r \in Req : req[r].pc = "sleeping"}
AllDone == \A r \in Req : req[r].pc = "done"
RespOf(r) == Val(req[r].resp)

\* C1: in every reachable state the number of requests inside the artificial-delay
\* window, and the shared counter, are at most MAX_CONCURRENT_TIMEOUT_REQUESTS.
C1_DelayWindowBounded ==
  /\ activeTimeoutRequests <= MAX_CONCURRENT_TIMEOUT_REQUESTS
  /\ Cardinality(Sleeping) <= MAX_CONCURRENT_TIMEOUT_REQUESTS

\* The window is full and a further delayed request was turned away with 503.
C1_Witness ==
  /\ Cardinality(Sleeping) = MAX_CONCURRENT_TIMEOUT_REQUESTS
  /\ \E r \in Req : req[r].pc = "done" /\ RespOf(r).status = 503

\* C2: every request admitted to the delay window increments the counter once and
\* decrements it once when it leaves the window, so the counter always equals the
\* number of requests inside the window, and is 0 once every request has finished.
C2_CounterMatchesWindow ==
  /\ activeTimeoutRequests = Cardinality(Sleeping)
  /\ AllDone => activeTimeoutRequests = 0

\* Every request has finished, and at least two of them went through the window.
C2_Witness ==
  /\ AllDone
  /\ Cardinality({r \in Req : req[r].endTime # None}) >= 2

\* The rate limiter, seen from outside: request r reached checkRateLimit, for
\* which client, and whether it was let through.  A window of a client opens
\* with its first request, or with the first one that comes after the window
\* before it has run out (RATE_LIMIT_WINDOW_MS after it opened).
Checked(r) == req[r].pc # "idle" /\ req[r].remaining # None
Allowed(r) == Checked(r) /\ ~(req[r].pc = "done" /\ RespOf(r).status = 429)
Rejected(r) == Checked(r) /\ req[r].pc = "done" /\ RespOf(r).status = 429
Client(r) == GetClientIP(Val(req[r].in))
Earlier(r) == {j \in 1 .. r - 1 : Checked(j) /\ Client(j) = Client(r)}
Last(S) == CHOOSE j \in S : \A k \in S : k <= j

RECURSIVE WindowStart(_)
WindowStart(r) ==
  IF Earlier(r) = {} THEN Val(req[r].at)
  ELSE IF Val(req[r].at) > WindowStart(Last(Earlier(r))) + RATE_LIMIT_WINDOW_MS
       THEN Val(req[r].at)
       ELSE WindowStart(Last(Earlier(r)))

OpensWindow(r) ==
  \/ Earlier(r) = {}
  \/ Val(req[r].at) > WindowStart(Last(Earlier(r))) + RATE_LIMIT_WINDOW_MS

AllowedBefore(r) == {j \in Earlier(r) : WindowStart(j) = WindowStart(r) /\ Allowed(j)}

\* C3: once RATE_LIMIT_REQUESTS requests of one client were allowed within one
\* window, its next request within that window is rejected; its first request
\* after the window has run out is allowed and reports the full quota restored
\* (remaining = ceiling - 1, resetTime = now + window).
C3_CeilingAndFreshWindow ==
  \A r \in RateReq :
    Checked(r) =>
      /\ Cardinality(AllowedBefore(r)) >= RATE_LIMIT_REQUESTS => Rejected(r)
      /\ OpensWindow(r) =>
           /\ Allowed(r)
           /\ req[r].remaining = Some(RATE_LIMIT_REQUESTS - 1)
           /\ req[r].resetTime = Some(Val(req[r].at) + RATE_LIMIT_WINDOW_MS)

\* Two requests were allowed, a third was rejected in the same window, and a
\* later one opened a new window.
C3_Witness ==
  /\ RATE_LIMIT_REQUESTS = 2
  /\ \E r \in RateReq : Rejected(r) /\ Cardinality(AllowedBefore(r)) = 2
  /\ \E r \in RateReq : Checked(r) /\ Earlier(r) # {} /\ OpensWindow(r)

\* C4: with ceiling 2, the allowed requests of a window report remaining 1, then
\* 0, and every request rejected with 429 carries
\* retryAfter = ceil((resetTime - now) / 1000) > 0.
C4_RemainingAndRetryAfter ==
  RATE_LIMIT_REQUESTS = 2 =>
    \A r \in RateReq :
      /\ Allowed(r) => req[r].remaining = Some(1 - Cardinality(AllowedBefore(r)))
      /\ Rejected(r) =>
           /\ RespOf(r).retryAfter =
                Some(CeilDiv(Val(req[r].resetTime) - Val(req[r].at), MsPerSecond))
           /\ Val(RespOf(r).retryAfter) > 0

\* The store seen through the storage contract
StoredLogs == GetLogs(None)
SeqSet(seq) == {seq[i] : i \in 1 .. Len(seq)}
LastN(seq, n) == SubSeq(seq, Len(seq) - Min(n, Len(seq)) + 1, Len(seq))
Stored(r) == req[r].pc = "done" /\ RespOf(r).status \notin {401, 429, 413, 503}
                /\ RespOf(r).error # Some("UNIQUE constraint failed")

\* C5: with a cap MAX configured, the store never holds more than MAX records,
\* and once MAX or more records were inserted (no add being under way) exactly
\* MAX remain: the MAX most recently inserted.
C5_TrimKeepsMostRecent ==
  cfg.MAX_LOGS # None =>
    /\ Len(StoredLogs) <= Val(cfg.MAX_LOGS)
    /\ (\A r \in Req : req[r].pc # "trimming") =>
         /\ Len(StoredLogs) = Min(Val(cfg.MAX_LOGS), Len(inserted))
         /\ SeqSet(StoredLogs) = SeqSet(LastN(inserted, Val(cfg.MAX_LOGS)))

\* C6: for every pageSize >= 1, the pages 1..totalPages of listPaged, one after
\* the other, are list() (every record once, in the same order), and totalPages
\* is the least n with n * pageSize >= total.
MaxPageSize == 3

RECURSIVE ConcatPages(_, _, _)
ConcatPages(p, pageSize, webhookId) ==
  IF p = 0 THEN << >>
  ELSE ConcatPages(p - 1, pageSize, webhookId)
         \o GetLogsPaginated(p, pageSize, webhookId).logs

C6_PagesReproduceList ==
  \A pageSize \in 1 .. MaxPageSize, webhookId \in {None, Some("webhook_a")} :
    LET first == GetLogsPaginated(1, pageSize, webhookId)
        all == GetLogs(webhookId)
    IN  /\ first.total = Len(all)
        /\ first.totalPages * pageSize >= Len(all)
        /\ first.totalPages > 0 => (first.totalPages - 1) * pageSize < Len(all)
        /\ first.totalPages >= 0
        /\ ConcatPages(first.totalPages, pageSize, webhookId) = all

\* The SQL backend holds two records of equal timestamp, listed on two pages.
C6_Witness ==
  /\ STORAGE_TYPE = "turso"
  /\ Len(StoredLogs) >= 2
  /\ StoredLogs[1].timestamp = StoredLogs[2].timestamp
  /\ GetLogsPaginated(1, 1, None).totalPages >= 2
  /\ GetLogsPaginated(2, 1, None).logs = <<StoredLogs[2]>>

\* C7: when add(r) returns, getById(r.id) returns a record equal to r in every
\* field, on either backend.
C7_AddThenGetById ==
  [][\A r \in Req :
       (req[r].pc # "done" /\ Stored(r)') => GetLogById(Val(req[r].log).id)' = req[r].log'
    ]_vars

\* C8: a capture request that passes the guards is answered with the statusCode
\* query value when that value is an integer in [100,599] and with 200 for every
\* other value; the stored record's statusCode is the response status.
StatusAsked(in) ==
  IF in.statusCode # None /\ Val(in.statusCode) \in IntegerStrings
     /\ Val(ParseInt(Val(in.statusCode))) \in 100 .. 599
  THEN Val(ParseInt(Val(in.statusCode))) ELSE 200

C8_StatusMirrorsQuery ==
  \A r \in Req :
    Stored(r) =>
      /\ RespOf(r).status = StatusAsked(Val(req[r].in))
      /\ Val(req[r].log).statusCode = RespOf(r).status

\* C9: an admitted request with timeout t in [1, MAX_TIMEOUT_SECONDS] has startTime
\* and endTime in its stored record and in its response, at least t seconds
\* apart; with timeout 0, absent or out of range it has neither and is not
\* delayed; a stored record has both or neither.
TimeoutAsked(in) ==
  IF in.timeout # None /\ Val(in.timeout) \in IntegerStrings
     /\ Val(ParseInt(Val(in.timeout))) \in 1 .. MAX_TIMEOUT_SECONDS
  THEN Val(ParseInt(Val(in.timeout))) ELSE 0

C9_DelayBracketed ==
  \A r \in Req :
    Stored(r) =>
      LET t == TimeoutAsked(Val(req[r].in))
          log == Val(req[r].log)
          resp == RespOf(r)
      IN  /\ (log.startTime = None) <=> (log.endTime = None)
          /\ resp.startTime = log.startTime
          /\ resp.endTime = log.endTime
          /\ IF t > 0
             THEN /\ log.startTime # None /\ log.endTime # None
                  /\ Val(log.endTime) - Val(log.startTime) >= t * MsPerSecond
             ELSE log.startTime = None /\ log.endTime = None

\* C10: a JSON body longer than MAX_JSON_SIZE bytes is answered 413 with maxSize
\* equal to MAX_JSON_SIZE and stores no record, whatever the configured
\* ceilings, with or without a content-length header or a timeout.
JsonTooLarge(in) ==
  in.contentType = "application/json" /\ ByteLength(in.body) > MAX_JSON_SIZE

C10_JsonCeiling ==
  \A r \in Req :
    (req[r].pc = "done" /\ JsonTooLarge(Val(req[r].in))) =>
      /\ RespOf(r).status = 413
      /\ RespOf(r).maxSize = Some(MAX_JSON_SIZE)
      /\ req[r].log = None
      /\ webhookLogs = << >> /\ rows = << >>
\* C11: no key of a stored record's headers starts, in any letter case, with
\* x-vercel, whatever the request carried; every other header of the request is
\* in the record with its value.
HasReservedPrefix(name) ==
  name \in {"x-vercel", "X-VERCEL", "x-vercel-id", "X-Vercel-Id", "x-vercel-cache"}

C11_ReservedHeadersDropped ==
  /\ \A i \in 1 .. Len(StoredLogs) :
       \A h \in StoredLogs[i].headers : ~HasReservedPrefix(h[1])
  /\ \A r \in Req :
       Stored(r) =>
         LET in == Val(req[r].in)
             headers == Val(req[r].log).headers
         IN  /\ \A h \in headers : ~HasReservedPrefix(h[1])
             /\ <<"content-type", in.contentType>> \in headers
             /\ \A name \in in.extraHeaders :
                  ~HasReservedPrefix(name) =>
                     \E h \in headers : ToLowerCase(h[1]) = ToLowerCase(name) /\ h[2] = "v"

\* A stored record of a request that carried reserved headers in both letter
\* cases next to ordinary ones, read back from the SQL backend.
C11_Witness ==
  /\ STORAGE_TYPE = "turso"
  /\ Stored(1)
  /\ {"X-Vercel-Id", "x-vercel-cache", "X-VERCEL", "x-verce", "X-Custom"}
       \subseteq Val(req[1].in).extraHeaders
  /\ Len(StoredLogs) = 1
  /\ <<"x-verce", "v">> \in StoredLogs[1].headers

\* C12: with authentication disabled (no flag, no keys) every request is
\* authorized; with it enabled a request is authorized if and only if it
\* presents a configured key as Authorization: Bearer <key> or ApiKey <key>, as
\* X-API-Key, or as the apiKey query parameter.
KeyForms(key) ==
  CASE key = "k1" -> {"Bearer k1", "ApiKey k1", "bearer k1"}
    [] OTHER -> {}

PresentsKey(in) ==
  \E key \in cfg.API_KEYS :
    \/ in.authorization # None /\ Val(in.authorization) \in KeyForms(key)
    \/ in.xApiKey = Some(key)
    \/ in.apiKeyParam = Some(key)

Authorized(r) == ~(req[r].pc = "done" /\ RespOf(r).status = 401)

C12_KeyAuthorizes ==
  \A r \in Req :
    req[r].pc # "idle" =>
      (Authorized(r) <=>
         ((~cfg.AUTH_ENABLED /\ cfg.API_KEYS = {}) \/ PresentsKey(Val(req[r].in))))

\* C13: with the API-key guard enabled, a call of any management endpoint
\* (logs list and clear, delete by id, analytics, test tools, bucket list, create
\* and delete) without a valid key is answered 401 with the fixed error envelope
\* and leaves the log store and the bucket store unchanged.
GuardEnabled == cfg.AUTH_ENABLED \/ cfg.API_KEYS # {}

C13_ManagementNeedsKey ==
  [][(api'.seq # api.seq /\ GuardEnabled /\ ~PresentsKey(api'.in)) =>
       /\ api'.status = 401
       /\ api'.kind = "auth"
       /\ UNCHANGED <<webhookLogs, rows, webhooks>>
    ]_vars

\* C14: no session ever owns more than 3 webhook buckets; a createWebhook by a
\* session that owns 3 fails with an error and leaves its list unchanged; a
\* session that owns fewer (also after a delete) can create one more.
Creates(s) ==
  /\ api'.seq # api.seq
  /\ api'.op = "POST /webhooks"
  /\ GetSessionIdFromRequest(api'.in) = Some(s)
  /\ api'.in.name = Some("hook")

C14_BucketCap ==
  /\ [](\A s \in Sessions : Len(webhooks[s]) <= 3)
  /\ [][\A s \in Sessions :
          Creates(s) =>
            IF Len(webhooks[s]) >= 3
            THEN api'.status = 400 /\ api'.kind = "max" /\ webhooks' = webhooks
            ELSE /\ api'.status = 201
                 /\ Len(webhooks'[s]) = Len(webhooks[s]) + 1
                 /\ \A o \in Sessions \ {s} : webhooks'[o] = webhooks[o]
      ]_vars

\* A create has just been refused for a session that owns 3 buckets, created at
\* different instants, while the other session owns some too.
C14_Witness ==
  /\ api.op = "POST /webhooks" /\ api.kind = "max"
  /\ GetSessionIdFromRequest(api.in) = Some("s1")
  /\ Len(webhooks["s1"]) = 3
  /\ webhooks["s1"][1].createdAt < webhooks["s1"][3].createdAt
  /\ Len(webhooks["s2"]) >= 1

\* C15: no two stored records have the same id, in any reachable state of the
\* store, captures of the same millisecond included.
C15_IdsUnique ==
  \A i, j \in 1 .. Len(StoredLogs) : i # j => StoredLogs[i].id # StoredLogs[j].id

\* C16: every record of the store has statusCode in [100,599] and a timeout
\* that is absent or an integer in [1, MAX_TIMEOUT_SECONDS], whatever the
\* statusCode and timeout query values were.
InRange(log) ==
  /\ log.statusCode \in 100 .. 599
  /\ log.timeout = None \/ Val(log.timeout) \in 1 .. cfg.MAX_TIMEOUT_SECONDS

C16_StoredRanges ==
  /\ \A i \in 1 .. Len(StoredLogs) : InRange(StoredLogs[i])
  /\ \A r \in Req : req[r].log # None => InRange(Val(req[r].log))

\* The SQL backend holds the record of a request that asked for status 600 and
\* for a delay written 2s, which was waited for.
C16_Witness ==
  /\ STORAGE_TYPE = "turso"
  /\ Len(StoredLogs) = 1
  /\ Val(req[1].in).statusCode = Some("600")
  /\ Val(req[1].in).timeout = Some("2s")
  /\ StoredLogs[1].statusCode = 200
  /\ StoredLogs[1].timeout = Some(2)

\* C17: list(webhookId?) returns the stored records, all of them or those of
\* that webhookId, newest first: of two consecutive records the first has the
\* greater or equal timestamp, also when delayed captures finish out of their
\* order of arrival.
NewestFirst(logs) ==
  \A i \in 1 .. Len(logs) - 1 : logs[i].timestamp >= logs[i + 1].timestamp

C17_ListNewestFirst ==
  /\ NewestFirst(GetLogs(None))
  /\ Len(GetLogs(None)) = Len(inserted)
  /\ SeqSet(GetLogs(None)) = SeqSet(inserted)
  /\ \A w \in {"webhook_a", "webhook_b"} :
       /\ NewestFirst(GetLogs(Some(w)))
       /\ SeqSet(GetLogs(Some(w))) = {log \in SeqSet(inserted) : log.webhookId = Some(w)}
       /\ Len(GetLogs(Some(w))) =
            Cardinality({i \in 1 .. Len(inserted) : inserted[i].webhookId = Some(w)})

\* The request that arrived first was delayed and its record is the newer one,
\* listed first by the SQL backend.
C17_Witness ==
  /\ STORAGE_TYPE = "turso"
  /\ Stored(1) /\ Stored(2)
  /\ Val(req[1].at) < Val(req[2].at)
  /\ Val(req[1].log).timestamp > Val(req[2].log).timestamp
  /\ Len(GetLogs(None)) = 2
  /\ GetLogs(None)[1] = Val(req[1].log)
  /\ Val(req[1].log).webhookId # Val(req[2].log).webhookId

\* C18: for every store state, requested page and pageSize >= 1, listPaged
\* returns a page number p >= 1 that is the requested page clamped to totalPages
\* (p = 1 with totalPages = 0 when nothing matches), the records at positions
\* (p-1)*pageSize .. p*pageSize-1 of list(), total = the number of matching
\* records, and hasMore = (p < totalPages).
MaxPage == 4

PageWindow(all, p, pageSize) ==
  [k \in 1 .. Max(0, Min(Len(all), p * pageSize) - (p - 1) * pageSize) |->
     all[(p - 1) * pageSize + k]]

PagedAsListed(page, pageSize, w) ==
  LET res == GetLogsPaginated(page, pageSize, w)
      all == GetLogs(w)
  IN  /\ res.logs = PageWindow(all, res.page, pageSize)
      /\ res.total = Len(all)
      /\ res.hasMore = (res.page < res.totalPages)
      /\ res.totalPages * pageSize >= Len(all)
      /\ res.totalPages > 0 => (res.totalPages - 1) * pageSize < Len(all)

PageFilters == {None, Some("webhook_a"), Some("webhook_b")}

C18_PageClamped ==
  \A page \in -1 .. MaxPage, pageSize \in 1 .. MaxPageSize, w \in PageFilters :
    LET res == GetLogsPaginated(page, pageSize, w)
    IN  /\ PagedAsListed(page, pageSize, w)
        /\ res.page >= 1
        /\ res.totalPages >= 1 => res.page <= res.totalPages
        /\ res.totalPages = 0 => res.page = 1
        /\ page \in 1 .. res.totalPages => res.page = page
        /\ page > res.totalPages /\ res.totalPages >= 1 => res.page = res.totalPages

\* C18 as stated: the page number is within 1 .. totalPages for every store,
\* the empty one included.
C18_PageWithinTotal ==
  \A page \in -1 .. MaxPage, pageSize \in 1 .. MaxPageSize, w \in PageFilters :
    LET res == GetLogsPaginated(page, pageSize, w)
    IN  /\ PagedAsListed(page, pageSize, w)
        /\ 1 <= res.page /\ res.page <= res.totalPages

\* Two records on the SQL backend, one of them of webhook_a: page 4 of size 1 is
\* clamped to page 2, and the filter webhook_b matches nothing.
C18_Witness ==
  /\ STORAGE_TYPE = "turso"
  /\ Len(GetLogs(None)) = 2
  /\ Len(GetLogs(Some("webhook_a"))) = 1
  /\ GetLogsPaginated(4, 1, None).page = 2
  /\ GetLogsPaginated(4, 1, None).logs = <<GetLogs(None)[2]>>
  /\ GetLogsPaginated(1, 1, None).hasMore
  /\ GetLogsPaginated(1, 1, Some("webhook_b")).totalPages = 0

\* C19: deleteById(id) on a store holding a record of that id removes exactly
\* that record, reports true and leaves the other records and their order as
\* they were; on a store without it, it reports false (404 at DELETE /logs/{id})
\* and leaves the store as it was.
Without(seq, i) == SubSeq(seq, 1, i - 1) \o SubSeq(seq, i + 1, Len(seq))

C19_DeleteById ==
  [][(api'.seq # api.seq /\ api'.op = "DELETE /logs/id") =>
       LET id == Val(api'.in.id)
           hits == {i \in 1 .. Len(StoredLogs) : StoredLogs[i].id = id}
       IN  IF hits # {}
           THEN /\ api'.status = 200
                /\ \E i \in hits : StoredLogs' = Without(StoredLogs, i)
           ELSE /\ api'.status = 404
                /\ StoredLogs' = StoredLogs
    ]_vars

\* The older of two records of the SQL backend has just been deleted by id.
C19_Witness ==
  /\ STORAGE_TYPE = "turso"
  /\ api.op = "DELETE /logs/id" /\ api.status = 200
  /\ Len(inserted) = 2
  /\ inserted[1].id = Val(api.in.id)
  /\ StoredLogs = <<inserted[2]>>

\* C20: clearing with a webhookId through DELETE /logs removes exactly the
\* records of that webhookId and leaves the others in their order; clearing
\* without one removes every record.
C20_ClearByWebhookId ==
  [][(api'.seq # api.seq /\ api'.op = "DELETE /logs") =>
       IF api'.in.webhookId # None
       THEN StoredLogs' = SelectSeq(StoredLogs, LAMBDA log : log.webhookId # api'.in.webhookId)
       ELSE StoredLogs' = << >>
    ]_vars

\* C21: a capture request rejected by a guard (401, 429, 413, 503) never adds a
\* record to the store; one rejected with 401 creates or changes no rate-limit
\* entry, and one rejected with 503 leaves the concurrent-delay counter as it was.
RejectedBy(r, status) == req[r].pc = "done" /\ RespOf(r).status = status

C21_RejectionStoresNothing ==
  [][\A r \in Req :
       \A status \in {401, 429, 413, 503} :
         (req[r].pc # "done" /\ RejectedBy(r, status)') =>
           /\ UNCHANGED <<webhookLogs, rows, inserted>>
           /\ req'[r].log = None
           /\ status = 401 => UNCHANGED rateLimitStore
           /\ status = 503 => UNCHANGED activeTimeoutRequests
    ]_vars

\* One request was turned away without a key, one because the delay window was
\* full, and the one that held the window was rejected for its size after its
\* delay, when its body was read; the store holds nothing.
C21_Witness ==
  /\ \E r \in Req : RejectedBy(r, 401)
  /\ \E r \in Req : RejectedBy(r, 503)
  /\ \E r \in Req : RejectedBy(r, 413) /\ req[r].endTime # None
  /\ StoredLogs = << >>
  /\ activeTimeoutRequests = 0
  /\ rateLimitStore["unknown"] # None

\* C22: for any store contents and any optional webhookId scope, the analytics
\* view reports a total, per-method counts, per-status-group counts and per-path
\* counts computed over exactly the records of that webhookId (all records
\* without a scope), and each family of counts sums to the total.
RECURSIVE SumOver(_, _)
SumOver(f, keys) ==
  IF keys = {} THEN 0
  ELSE LET k == CHOOSE x \in keys : TRUE IN f[k] + SumOver(f, keys \ {k})

CountsOf(recs, out) ==
  LET ix == 1 .. Len(recs)
  IN  /\ out.totalLogs = Len(recs)
      /\ DOMAIN out.byMethod = {recs[i].method : i \in ix}
      /\ \A m \in DOMAIN out.byMethod :
           out.byMethod[m] = Cardinality({i \in ix : recs[i].method = m})
      /\ DOMAIN out.byStatus = {StatusGroup(recs[i].statusCode) : i \in ix}
      /\ \A g \in DOMAIN out.byStatus :
           out.byStatus[g] = Cardinality({i \in ix : StatusGroup(recs[i].statusCode) = g})
      /\ DOMAIN out.topPaths = {recs[i].path : i \in ix}
      /\ \A pa \in DOMAIN out.topPaths :
           out.topPaths[pa] = Cardinality({i \in ix : recs[i].path = pa})
      /\ SumOver(out.byMethod, DOMAIN out.byMethod) = out.totalLogs
      /\ SumOver(out.byStatus, DOMAIN out.byStatus) = out.totalLogs
      /\ SumOver(out.topPaths, DOMAIN out.topPaths) = out.totalLogs

C22_AnalyticsScoped ==
  [][(api'.seq # api.seq /\ api'.op = "GET /analytics" /\ api'.status = 200) =>
       CountsOf(IF api'.in.webhookId # None
                THEN SelectSeq(StoredLogs, LAMBDA log : log.webhookId = api'.in.webhookId)
                ELSE StoredLogs,
                Val(api'.out))
    ]_vars

\* C23: driven by the same sequence of add / deleteById / clear calls with the
\* same cap (records whose timestamps tie or are not in insertion order
\* included), the in-memory and the SQL backend return the same results from
\* list, listPaged, getById and stats, and retain the same set of records.
StatsAgree(w) ==
  LET m == MemoryGetStats(webhookLogs, w)
      t == TursoGetStats(rows, w)
  IN  /\ m.totalLogs = t.totalLogs
      /\ m.logsByMethod = t.logsByMethod
      /\ m.logsByStatus = t.logsByStatus
      /\ m.logsByPath = t.logsByPath

C23_BackendsAgree ==
  /\ SeqSet(webhookLogs) = SeqSet(MapSeq(rows, RowToLog))
  /\ \A id \in LogIds : MemoryGetLogById(webhookLogs, id) = TursoGetLogById(rows, id)
  /\ \A w \in PageFilters :
       /\ MemoryGetLogs(webhookLogs, w) = TursoGetLogs(rows, w)
       /\ StatsAgree(w)
       /\ \A page \in 1 .. MaxPage, pageSize \in 1 .. MaxPageSize :
            MemoryGetLogsPaginated(webhookLogs, page, pageSize, w)
              = TursoGetLogsPaginated(rows, page, pageSize, w)

\* C24: the artificial delay of one capture request never blocks another: while
\* a request is suspended in its delay, every other request can take its next
\* step (arrive and pass the guards, resume from a delay that is over, store its
\* record and be answered), and every request admitted to a delay eventually
\* resumes, stores its record and is answered.
DelayOver(j) ==
  /\ req[j].pc = "sleeping"
  /\ now >= Val(req[j].startTime) + req[j].validTimeoutSeconds * MsPerSecond

CanProceed(j) ==
  /\ req[j].pc = "idle" /\ (\A k \in 1 .. j - 1 : req[k].pc # "idle") =>
       \A in \in LiveInputs : ENABLED Arrive(j, in)
  /\ DelayOver(j) => ENABLED Wake(j)
  /\ req[j].pc = "reading" => ENABLED ReadBody(j, {RandomSuffix(j)})
  /\ req[j].pc = "inserting" => ENABLED TursoInsertLog(j)

StoredAndAnswered(r) ==
  /\ Stored(r)
  /\ RespOf(r).status = 200
  /\ Val(req[r].log) \in SeqSet(StoredLogs)

Canonical(v) == IF v = "obj:{b:2,a:1}" THEN "obj:{a:1,b:2}" ELSE v

DeepEqual(v1, v2) == Canonical(v1) = Canonical(v2)

Compared(out, log1, log2) ==
  /\ out.method.same = (log1.method = log2.method)
  /\ out.statusCode.same = (log1.statusCode = log2.statusCode)
  /\ out.path.same = (log1.path = log2.path)
  /\ out.body.same = DeepEqual(log1.body, log2.body)
  /\ (out.body.differences # {}) = ~out.body.same
  /\ out.headers.same =
       (\A key \in {h[1] : h \in log1.headers \cup log2.headers} :
          /\ \E h \in log1.headers : h[1] = key
          /\ \E h \in log2.headers : h[1] = key
          /\ \A h1 \in log1.headers, h2 \in log2.headers :
               (h1[1] = key /\ h2[1] = key) => h1[2] = h2[2])

C25_CompareByValue ==
  [][(api'.seq # api.seq /\ api'.op = "POST /test" /\ api'.status = 200) =>
       Compared(Val(api'.out), Val(GetLogById(Val(api'.in.logId1))),
                Val(GetLogById(Val(api'.in.logId2))))
    ]_vars

\* C26: a record captured on a path whose first segment after /webhooks has the
\* form webhook_<opaque> carries that segment as its webhookId, whether or not a
\* bucket of that id exists or still exists; a record of any other path carries
\* none; and list(W), listPaged(.., W) and stats(W) cover exactly the stored
\* records whose webhookId is W.
\* webhook_ followed by at least one character
HasWebhookForm(seg) == seg \in {"webhook_0_k3j9x", "webhook_a"}

ExpectedWebhookId(slug) ==
  IF Len(slug) >= 1 /\ HasWebhookForm(slug[1]) THEN Some(slug[1]) ELSE None

OfWebhook(W) == SelectSeq(StoredLogs, LAMBDA log : log.webhookId = Some(W))

C26_WebhookIdFromPath ==
  /\ \A r \in Req :
       Stored(r) =>
         /\ Val(req[r].log).webhookId = ExpectedWebhookId(Val(req[r].in).slug)
         /\ GetLogById(Val(req[r].log).id) = req[r].log
  /\ \A W \in ScopeIds :
       /\ GetLogs(Some(W)) = OfWebhook(W)
       /\ GetStats(Some(W)).totalLogs = Len(OfWebhook(W))
       /\ \A pageSize \in 1 .. MaxPageSize :
            LET first == GetLogsPaginated(1, pageSize, Some(W))
            IN  /\ first.total = Len(OfWebhook(W))
                /\ ConcatPages(first.totalPages, pageSize, Some(W)) = OfWebhook(W)

\* The bucket webhook_0_k3j9x was created and deleted again; the store holds a
\* record captured on its path, one on the path of webhook_a, of which no bucket
\* ever existed, and one on a path whose second segment is webhook_a.
C26_Witness ==
  /\ STORAGE_TYPE = "turso"
  /\ api.op = "DELETE /webhooks" /\ api.status = 200
  /\ webhooks["s1"] = << >>
  /\ Len(OfWebhook("webhook_0_k3j9x")) = 1
  /\ Len(OfWebhook("webhook_a")) = 1
  /\ Len(StoredLogs) = 3
  /\ \E i \in 1 .. 3 : StoredLogs[i].path = <<"webhooks", "orders", "webhook_a">>

\* C27: rate-limit buckets are independent per identifier: the check made for a
\* request of identifier A never creates, changes or removes the entry of another
\* identifier, so whether a request is allowed, and what remains, depends only on
\* the earlier requests of its own identifier and the clock; all requests
\* carrying neither x-forwarded-for nor x-real-ip share the bucket "unknown".
Arrives(r) == req[r].pc = "idle" /\ req'[r].pc # "idle"

NoAddress(in) == in.xForwardedFor = None /\ in.xRealIp = None

C27_BucketsIndependent ==
  /\ [][\A r \in Req :
          Arrives(r) =>
            \A B \in Identifiers \ {GetClientIP(Val(req'[r].in))} :
              rateLimitStore'[B] = rateLimitStore[B]
      ]_vars
  /\ [](\A r \in Req :
          Checked(r) =>
            /\ Allowed(r) <=> Cardinality(AllowedBefore(r)) < RATE_LIMIT_REQUESTS
            /\ Allowed(r) =>
                 req[r].remaining = Some(RATE_LIMIT_REQUESTS - 1 - Cardinality(AllowedBefore(r)))
            /\ NoAddress(Val(req[r].in)) => Client(r) = "unknown")
  /\ [](\A r, j \in Req :
          (Checked(r) /\ Checked(j) /\ NoAddress(Val(req[r].in)) /\ NoAddress(Val(req[j].in))
             /\ j < r /\ Allowed(j) /\ WindowStart(j) = WindowStart(r)) =>
            j \in AllowedBefore(r))

\* With a ceiling of one: the second request without any address header is
\* rejected, and a request of 10.0.0.1 arriving after it at the same instant is
\* allowed; both entries stand side by side.
C27_Witness ==
  /\ RATE_LIMIT_REQUESTS = 1
  /\ \E r, j \in Req :
       /\ j < r /\ Rejected(j) /\ Allowed(r)
       /\ Client(r) = "10.0.0.1" /\ Client(j) = "unknown"
       /\ Val(req[r].at) = Val(req[j].at)
  /\ rateLimitStore["unknown"] # None /\ rateLimitStore["10.0.0.1"] # None

\* C28: the periodic sweep removes only rate-limit entries whose window has
\* expired (now > resetTime), and is transparent: wherever it runs between the
\* requests, the (allowed, remaining, resetTime) result of every checkRateLimit
\* call is what the requests before it and the clock alone determine.
Swept == rateLimitStore' # rateLimitStore /\ req' = req

ResultOf(store, identifier, t) ==
  LET rl == CheckRateLimit(store, identifier, t)
  IN  <<rl.allowed, rl.remaining, rl.resetTime>>

C28_SweepTransparent ==
  /\ [][Swept =>
          /\ \A i \in Identifiers :
               rateLimitStore'[i] # rateLimitStore[i] =>
                 /\ rateLimitStore[i] # None
                 /\ now > Val(rateLimitStore[i]).resetTime
                 /\ rateLimitStore'[i] = None
          /\ \A i \in Identifiers, t \in RateInstants :
               t >= now => ResultOf(rateLimitStore', i, t) = ResultOf(rateLimitStore, i, t)
      ]_vars
  /\ [](\A r \in RateReq :
          Checked(r) =>
            /\ Allowed(r) <=> Cardinality(AllowedBefore(r)) < RATE_LIMIT_REQUESTS
            /\ req[r].remaining =
                 Some(IF Allowed(r)
                      THEN RATE_LIMIT_REQUESTS - 1 - Cardinality(AllowedBefore(r)) ELSE 0)
            /\ req[r].resetTime = Some(WindowStart(r) + RATE_LIMIT_WINDOW_MS))

\* A client used up its window and was rejected; the window has run out and the
\* sweep has removed the client's entry before its next request.
C28_Witness ==
  /\ \E r \in RateReq : Rejected(r) /\ Client(r) = "10.0.0.1"
  /\ \E r \in RateReq : req[r].pc = "idle"
  /\ now > MsPerSecond
  /\ rateLimitStore["10.0.0.1"] = None

\* C29: every capture request that passes the auth guard and is not rejected
\* with 429 consumes one unit of its client's quota for the current window, also
\* when it is then rejected with 413 or 503 or fails with 500; a request rejected
\* with 429 or 401 consumes none, and the count never exceeds the ceiling.  So a
\* client can reach 429 without any of its requests having stored a record.
Consumed(c, resetTime) ==
  {r \in Req : /\ Checked(r) /\ Allowed(r) /\ Client(r) = c
               /\ WindowStart(r) + RATE_LIMIT_WINDOW_MS = resetTime}

C29_QuotaConsumedByChecked ==
  /\ [](\A c \in Identifiers :
          /\ rateLimitStore[c] = None => \A r \in Req : ~(Checked(r) /\ Client(r) = c)
          /\ rateLimitStore[c] # None =>
               /\ Val(rateLimitStore[c]).count <= RATE_LIMIT_REQUESTS
               /\ Val(rateLimitStore[c]).count
                    = Cardinality(Consumed(c, Val(rateLimitStore[c]).resetTime)))
  /\ [][\A r \in Req :
          (Arrives(r) /\ (RejectedBy(r, 429)' \/ RejectedBy(r, 401)')) =>
            UNCHANGED rateLimitStore
      ]_vars

\* The client's quota of two was used up by a request rejected with 503 and one
\* rejected with 413 after its delay; its third request was rejected with 429,
\* and no record was ever stored.
C29_Witness ==
  /\ \E r \in Req : RejectedBy(r, 503)
  /\ \E r \in Req : RejectedBy(r, 413)
  /\ \E r \in Req : RejectedBy(r, 429)
  /\ inserted = << >> /\ StoredLogs = << >>
  /\ Val(rateLimitStore["unknown"]).count = RATE_LIMIT_REQUESTS

\* A request that counted against the quota failed with 500.
C29_Failed500 ==
  \E r \in Req : Checked(r) /\ RejectedBy(r, 500) /\ r \in Consumed("unknown", MsPerSecond)

\* C30: deleteWebhook(sessionId, webhookId) removes a bucket only from the list
\* of sessionId: called with the id of a bucket that only another session owns
\* it returns false (404 at DELETE /webhooks) and leaves every session's list
\* unchanged; called with the id of one of its own it removes that one and
\* leaves the other sessions' lists unchanged; and getWebhooksBySession(S) never
\* returns a bucket whose sessionId differs from S.
BucketIdsOf(s) == {webhooks[s][i].id : i \in 1 .. Len(webhooks[s])}

Deletes(s, w) ==
  /\ api'.seq # api.seq
  /\ api'.op = "DELETE /webhooks"
  /\ GetSessionIdFromRequest(api'.in) = Some(s)
  /\ api'.in.webhookId = Some(w)

C30_DeleteOwnOnly ==
  /\ [](\A s \in Sessions :
          \A i \in 1 .. Len(GetWebhooksBySession(s)) :
            GetWebhooksBySession(s)[i].sessionId = s)
  /\ [][\A s \in Sessions, w \in BucketIds :
          Deletes(s, w) =>
            /\ \A o \in Sessions \ {s} : webhooks'[o] = webhooks[o]
            /\ IF w \in BucketIdsOf(s)
               THEN /\ api'.status = 200
                    /\ \E i \in 1 .. Len(webhooks[s]) :
                         webhooks[s][i].id = w /\ webhooks'[s] = Without(webhooks[s], i)
               ELSE /\ api'.status = 404
                    /\ webhooks' = webhooks
      ]_vars

\* Session s1 has just asked to delete a bucket that only s2 owns: the answer
\* is 404 and both sessions still own their buckets.
C30_Witness ==
  /\ api.op = "DELETE /webhooks" /\ api.status = 404
  /\ GetSessionIdFromRequest(api.in) = Some("s1")
  /\ Val(api.in.webhookId) \in BucketIdsOf("s2")
  /\ Val(api.in.webhookId) \notin BucketIdsOf("s1")
  /\ Len(webhooks["s1"]) >= 1

====
